---------------------------- MODULE Spec2Model ----------------------------
(***************************************************************************)
(* Job tracking, background batch processing and queue consumption of the  *)
(* Google Forms automation service:                                        *)
(*   src/src/api/services/job_tracker.py          JobInfo, JobTracker      *)
(*   src/src/api/services/background_processor.py BackgroundProcessor      *)
(*   src/src/api/endpoints/forms.py               process / cancel routes  *)
(*   src/src/core/system.py                       GoogleFormsAutomation-   *)
(*                                                System                   *)
(*   src/src/scheduling/scheduler.py              JobScheduler             *)
(*   src/src/messaging/rabbitmq.py                RabbitMQHandler          *)
(***************************************************************************)
EXTENDS Integers, Sequences, FiniteSets, TLC

\* ------------------------------------------------------------------ bounds
MaxJobs == 1          \* tracked batches created over a run
MaxRows == 2          \* rows of an uploaded file
MaxThreads == 2       \* "threads" form parameter (the endpoint accepts 1..5)
MaxClock == 1         \* readings of datetime.now() that are told apart
MaxDeliveries == 2    \* deliveries of one message that are counted, and
                      \*   that submit_form may fail
MaxQueue == 2         \* messages waiting in the queue when a worker starts

JobIds == 1..MaxJobs
Systems == 0..MaxJobs     \* 0: a system taken by itself, without the tracker:
                          \*    the stand-alone worker (run_worker_mode), or
                          \*    the system of a batch in scheduled mode;
                          \* j >= 1: the system built by the thread of job j
RowIds == 1..MaxRows
None == -1

Min(a, b) == IF a < b THEN a ELSE b
Max(a, b) == IF a > b THEN a ELSE b

VARIABLES
    jobs,        \* JobTracker.jobs: the ids held by the registry
    job,         \* the JobInfo objects, by id (an object outlives its eviction:
                 \*   the worker thread keeps its reference)
    created,     \* how many jobs create_job has made (uuid4 ids are fresh)
    params,      \* per job: rows_count, threads, has_eta of the upload
    pc,          \* per job: position of its _process thread
    http,        \* the cancel_job coroutine: idle, or past its status test
    now,         \* datetime.now()
    stats,       \* per system: GoogleFormsAutomationSystem.stats
    rows,        \* per job: batch mode position of every row
    timers,      \* per job: rows whose threading.Timer is armed
    ready,       \* the broker queue: messages ready for delivery
    consumer,    \* per system: state of start_worker and of its wrapper
    deliveries,  \* per message: how often the broker has delivered it
    acked,       \* messages acknowledged (basic_ack)
    rejected,    \* messages rejected without requeue
    broker_up,   \* the broker is reachable
    handler,     \* RabbitMQHandler: connection, _connection_lock,
                 \*   _reconnect_attempts, and the sleeps of the connect
                 \*   call under way
    call,        \* per thread: its position inside ensure_connection / connect
    batch,       \* the job list handed to schedule_jobs: the eta of every row
    scheduler,   \* the schedule_jobs call: its position, the now it has read
    sender,      \* per row: its Timer, the send_job call the Timer makes
                 \*   and the sleeps of that call
    tracker_lock,\* JobTracker._lock: the thread that holds it
    writer,      \* per thread: the tracker operation or the cancel it is
                 \*   inside, and how many of its statements it has run
    logs,        \* per job: the message of the last entry of JobInfo.logs,
                 \*   followed where the statements of the operations are
                 \*   steps of their own (SpecRace)
    stats_lock,  \* GoogleFormsAutomationSystem._stats_lock: made or not, and
                 \*   the thread that holds it
    updater,     \* per row: the _update_stats call of its thread
    input,       \* the argument of a function studied by itself
    output,      \* the value the function gave
    legacy_mq,   \* src/rabbitmq_handler.py: the queue of its consumer, the
                 \*   retry threads, and what became of the messages
    legacy_schedule  \* src/scheduler.py: the jobs held by the schedule
                 \*   module, and what execute_job has sent

trackerVars == <<jobs, job, created, params>>
sysVars == <<stats, rows>>
brokerVars == <<timers, ready, consumer, deliveries, acked, rejected>>
connVars == <<broker_up, handler, call>>
schedVars == <<batch, scheduler, sender>>
raceVars == <<tracker_lock, writer, logs>>
statVars == <<stats_lock, updater>>
fnVars == <<input, output>>
legacyVars == <<legacy_mq, legacy_schedule>>
unitVars == <<raceVars, statVars, fnVars, legacyVars>>
vars == <<jobs, job, created, params, pc, http, now, stats, rows, timers,
          ready, consumer, deliveries, acked, rejected, broker_up, handler,
          call, batch, scheduler, sender, tracker_lock, writer, logs,
          stats_lock, updater, input, output, legacy_mq, legacy_schedule>>

\* ------------------------------------------------------------- JobStatus
PENDING == "pending"
PROCESSING == "processing"
COMPLETED == "completed"
FAILED == "failed"
CANCELLED == "cancelled"
JobStatus == {PENDING, PROCESSING, COMPLETED, FAILED, CANCELLED}
Terminal == {COMPLETED, FAILED, CANCELLED}

\* ---------------------------------------------------------------- JobInfo
\* JobInfo.__init__ (created_at is written once and read by to_dict only)
NewJobInfo ==
    [status |-> PENDING, started_at |-> None, completed_at |-> None,
     progress |-> 0, message |-> "", cancel_requested |-> FALSE]

\* an update_progress that stores the percent as it is given
update_progress_as_given(info, progress, message) ==
    [info EXCEPT !.progress = progress, !.message = message]

\* JobInfo.update_progress
update_progress(info, progress, message) ==
    [info EXCEPT !.progress = Max(0, Min(100, progress)),
                 !.message = message]

\* JobInfo.start written as a re-initialisation: it clears the flag
start_clears_flag(info, t) ==
    update_progress([info EXCEPT !.status = PROCESSING, !.started_at = t,
                                 !.cancel_requested = FALSE],
                    0, "Job started")

\* JobInfo.start
start(info, t) ==
    update_progress([info EXCEPT !.status = PROCESSING, !.started_at = t],
                    0, "Job started")

\* JobInfo.complete
complete(info, t) ==
    update_progress([info EXCEPT !.status = COMPLETED, !.completed_at = t],
                    100, "Job completed successfully")

\* JobInfo.fail
fail(info, t) ==
    [info EXCEPT !.status = FAILED, !.completed_at = t,
                 !.message = "Job failed"]

\* JobInfo.cancel
cancel(info, t) ==
    [info EXCEPT !.cancel_requested = TRUE, !.status = CANCELLED,
                 !.completed_at = t, !.message = "Job cancelled by user"]

\* JobInfo.is_cancelled
is_cancelled(info) == info.cancel_requested

\* ------------------------------------------------------------- JobTracker
\* JobTracker.get_job: the id is a key of the registry
get_job(id) == id \in jobs

\* JobTracker.update_job_progress
update_job_progress(id, progress, message) ==
    IF id \in jobs
    THEN [job EXCEPT ![id] = update_progress(@, progress, message)]
    ELSE job

\* JobTracker.start_job
start_job(id) ==
    IF id \in jobs THEN [job EXCEPT ![id] = start(@, now)] ELSE job

\* JobTracker.complete_job
complete_job(id) ==
    IF id \in jobs THEN [job EXCEPT ![id] = complete(@, now)] ELSE job

\* JobTracker.fail_job
fail_job(id) ==
    IF id \in jobs THEN [job EXCEPT ![id] = fail(@, now)] ELSE job

\* a cleanup_old_jobs that goes by completed_at alone, whatever the status
jobs_to_remove_by_age(max_age) ==
    {id \in jobs : /\ job[id].completed_at # None
                   /\ job[id].completed_at < now - max_age}

\* JobTracker.cleanup_old_jobs: the ids it removes
jobs_to_remove(max_age) ==
    {id \in jobs : /\ job[id].status \in Terminal
                   /\ job[id].completed_at # None
                   /\ job[id].completed_at < now - max_age}


\* ----------------------------------------------- GoogleFormsAutomationSystem
NoStats == [processed |-> 0, succeeded |-> 0, failed |-> 0]

\* an _update_stats that counts the job as processed and leaves out its
\* outcome
update_stats_processed_only(st, success) ==
    [st EXCEPT !.processed = @ + 1]

\* GoogleFormsAutomationSystem._update_stats (locked or not, one thread at a
\* time runs it)
update_stats(st, success) ==
    [processed |-> st.processed + 1,
     succeeded |-> st.succeeded + (IF success THEN 1 ELSE 0),
     failed |-> st.failed + (IF success THEN 0 ELSE 1)]

\* set_threading_config is called only for headless and threads > 1
max_threads(headless, threads) ==
    IF headless /\ threads > 1 THEN threads ELSE 1

\* a pool with one thread for every job of the list, whatever max_threads is
pool_size_per_job(id) ==
    IF params[id].rows_count > 1 THEN params[id].rows_count ELSE 1

\* run_batch_mode: the number of process_job calls that may run at a time
\* (ThreadPoolExecutor(max_workers = max_threads), or the plain loop)
pool_size(id) ==
    IF params[id].max_threads > 1 /\ params[id].rows_count > 1
    THEN params[id].max_threads ELSE 1

\* progress_callback: the value it reports
row_progress(processed, rows_count) ==
    Min(95, 30 + ((processed * 60) \div rows_count))

\* the rows of batch id whose submit_form call is in progress in batch mode
Executing(id) == {r \in RowIds : rows[id][r] = "exec"}

\* the positions of a thread inside _update_stats, and inside the
\* progress_callback that stands for it in a tracked batch
InUpdate == {"lock", "load_processed", "store_processed", "load_outcome",
             "store_outcome", "read_processed", "report"}

\* the rows of batch id whose process_job call has not returned: a thread of
\* the pool, or the loop, is taken by each
Busy(id) == {r \in RowIds : rows[id][r] \in {"exec"} \cup InUpdate}

\* --------------------------------------------------------------- messages
Kinds == {"job", "badjson", "nondict"}
Msgs == [batch : Systems, row : RowIds, kind : Kinds]
NoMsg == [batch |-> 0, row |-> 0, kind |-> "none"]
Off == [pc |-> "off", msg |-> NoMsg]

\* the message send_job publishes for row r of batch id
JobMsg(id, r) == [batch |-> id, row |-> r, kind |-> "job"]

\* ------------------------------------------------------- RabbitMQHandler
\* the threads that use a handler: 0 runs start_worker, r >= 1 is the Timer
\* thread of row r
Threads == 0..MaxRows

\* RabbitMQHandler.__init__
max_reconnect_attempts == 5
NewHandler ==
    [connection |-> "none", lock |-> None, reconnect_attempts |-> 0,
     waits |-> <<>>]

\* send_job: the default of max_retries
max_retries == 3

\* a Timer that schedule_jobs has not made
NoTimer ==
    [pc |-> "off", due |-> None, job |-> None, attempt |-> 0, by |-> None,
     waits |-> <<>>]

\* no handler is in use and no batch is being scheduled
Unscheduled ==
    /\ handler = NewHandler
    /\ call = [t \in Threads |-> "none"]
    /\ batch = <<>>
    /\ scheduler = [pc |-> "off", now |-> None]
    /\ sender = [r \in RowIds |-> NoTimer]

\* an _update_stats call that has not begun
NoUpdate == [success |-> FALSE, value |-> 0]

\* the threads that use the tracker: 0 is the event loop of the HTTP layer,
\* id >= 1 the _process thread of job id
TrackerThreads == 0..MaxJobs

\* a thread outside every tracker operation
NoWrite == [op |-> "none", id |-> 0, done |-> 0]

\* no lock is held, no _update_stats call is under way and no function is
\* studied by itself
Unlocked ==
    /\ tracker_lock = None
    /\ writer = [t \in TrackerThreads |-> NoWrite]
    /\ logs = [id \in JobIds |-> ""]
    /\ stats_lock = None
    /\ updater = [r \in RowIds |-> NoUpdate]
    /\ input = None
    /\ output = None
    /\ legacy_mq = None
    /\ legacy_schedule = None

\* ------------------------------------------------------------------ Init
Init ==
    /\ jobs = {}
    /\ job = [id \in JobIds |-> NewJobInfo]
    /\ created = 0
    /\ params = [id \in JobIds |->
                   [rows_count |-> 0, max_threads |-> 1, has_eta |-> FALSE]]
    /\ pc = [id \in JobIds |-> "none"]
    /\ http = [pc |-> "idle", id |-> 0]
    /\ now = 0
    /\ stats = [s \in Systems |-> NoStats]
    /\ rows = [id \in JobIds |-> [r \in RowIds |-> "none"]]
    /\ timers = [id \in JobIds |-> {}]
    /\ ready = <<>>
    /\ consumer = [s \in Systems |-> Off]
    /\ deliveries = [m \in Msgs |-> 0]
    /\ acked = {}
    /\ rejected = {}
    /\ broker_up = TRUE
    /\ Unscheduled
    /\ Unlocked

\* ------------------------------------------------------------ HTTP layer
\* process_google_form_background: create_job, then process_form_async
\* starts the daemon thread.  The routes are coroutines of one event loop and
\* cancel_job has no await: no other route runs inside it
process_google_form_background(rows_count, headless, threads, has_eta) ==
    /\ http.pc = "idle"
    /\ created < MaxJobs
    /\ LET id == created + 1 IN
        /\ created' = id
        /\ jobs' = jobs \cup {id}
        /\ job' = [job EXCEPT ![id] = NewJobInfo]
        /\ params' = [params EXCEPT ![id] =
                        [rows_count |-> rows_count,
                         max_threads |-> max_threads(headless, threads),
                         has_eta |-> has_eta]]
        /\ pc' = [pc EXCEPT ![id] = "get_job"]
    /\ UNCHANGED <<http, now, sysVars, brokerVars>>
    /\ UNCHANGED <<connVars, schedVars, unitVars>>

\* cancel_job without its status test: job.cancel() whatever the status
cancel_branch_always(status) == status \in JobStatus

\* cancel_job, the branch it takes on the status it reads
cancel_branch(status) == status \in {PROCESSING, PENDING}

\* cancel_job up to its status test: get_job, then the if / elif
cancel_job_test(id) ==
    /\ http.pc = "idle"
    /\ get_job(id)
    /\ http' = IF cancel_branch(job[id].status)
               THEN [pc |-> "cancel", id |-> id] ELSE http
    /\ UNCHANGED <<trackerVars, pc, now, sysVars, brokerVars>>
    /\ UNCHANGED <<connVars, schedVars, unitVars>>

\* cancel_job: job.cancel(), called without the tracker lock
cancel_job_cancel ==
    /\ http.pc = "cancel"
    /\ job' = [job EXCEPT ![http.id] = cancel(@, now)]
    /\ http' = [pc |-> "idle", id |-> 0]
    /\ UNCHANGED <<jobs, created, params, pc, now, sysVars, brokerVars>>
    /\ UNCHANGED <<connVars, schedVars, unitVars>>

\* cancel_job run without another thread in between
cancel_job(info, t) ==
    IF cancel_branch(info.status) THEN cancel(info, t) ELSE info

\* JobTracker.cleanup_old_jobs
cleanup_old_jobs(max_age) ==
    /\ jobs' = jobs \ jobs_to_remove(max_age)
    /\ UNCHANGED <<job, created, params, pc, http, now, sysVars, brokerVars>>
    /\ UNCHANGED <<connVars, schedVars, unitVars>>

\* the clock advances
Tick ==
    /\ now < MaxClock
    /\ now' = now + 1
    /\ UNCHANGED <<trackerVars, pc, http, sysVars, brokerVars>>
    /\ UNCHANGED <<connVars, schedVars, unitVars>>

\* ------------------------------------------- BackgroundProcessor._process
Goto(id, label) == pc' = [pc EXCEPT ![id] = label]

\* what submit_form may do: return True, return False, raise
Outcomes == {"ok", "fail", "raise"}

\* submit_form fails for one message on its first MaxDeliveries - 1
\* deliveries at most
MayBe(m, outcome) == outcome = "ok" \/ deliveries[m] < MaxDeliveries

\* lines 33-41: get_job, thread_ref, start_job
Process_start_job(id) ==
    /\ pc[id] = "get_job"
    /\ IF get_job(id)
       THEN job' = start_job(id) /\ Goto(id, "check_44")
       ELSE UNCHANGED job /\ Goto(id, "done")
    /\ UNCHANGED <<jobs, created, params, http, now, sysVars, brokerVars>>
    /\ UNCHANGED <<connVars, schedVars, unitVars>>

\* a cancellation check that does not return
Process_check_ignores_flag(id, here, next) ==
    /\ pc[id] = here
    /\ Goto(id, next)
    /\ UNCHANGED <<trackerVars, http, now, sysVars, brokerVars>>
    /\ UNCHANGED <<connVars, schedVars, unitVars>>

\* the cancellation checks of lines 44, 62 and 79: return when the flag is set
Process_check(id, here, next) ==
    /\ pc[id] = here
    /\ Goto(id, IF is_cancelled(job[id]) THEN "done" ELSE next)
    /\ UNCHANGED <<trackerVars, http, now, sysVars, brokerVars>>
    /\ UNCHANGED <<connVars, schedVars, unitVars>>

\* an update_job_progress call of _process with the work before it
Process_update(id, here, progress, message, next) ==
    /\ pc[id] = here
    /\ job' = update_job_progress(id, progress, message)
    /\ Goto(id, next)
    /\ UNCHANGED <<jobs, created, params, http, now, sysVars, brokerVars>>
    /\ UNCHANGED <<connVars, schedVars, unitVars>>

\* a step of _process raises: except branch, fail_job
Process_raise(id, here) ==
    /\ pc[id] = here
    /\ job' = fail_job(id)
    /\ Goto(id, "done")
    /\ UNCHANGED <<jobs, created, params, http, now, sysVars, brokerVars>>
    /\ UNCHANGED <<connVars, schedVars, unitVars>>

\* lines 141-160: the rows are read, has_eta chooses the mode
Process_choose_mode(id) ==
    /\ pc[id] = "load"
    /\ rows' = [rows EXCEPT ![id] =
                  [r \in RowIds |->
                     IF r <= params[id].rows_count THEN "todo" ELSE "none"]]
    /\ job' = update_job_progress(id, 40,
                 IF params[id].has_eta THEN "ETA detected, using scheduled mode..."
                 ELSE "No ETA detected, using batch mode...")
    /\ Goto(id, IF params[id].has_eta THEN "run_scheduled_mode"
                ELSE "run_batch_mode")
    /\ UNCHANGED <<jobs, created, params, http, now, stats, brokerVars>>
    /\ UNCHANGED <<connVars, schedVars, unitVars>>

\* lines 180-184: system.cleanup(), complete_job
Process_complete_job(id) ==
    /\ pc[id] = "complete"
    /\ job' = complete_job(id)
    /\ Goto(id, "done")
    /\ UNCHANGED <<jobs, created, params, http, now, sysVars, brokerVars>>
    /\ UNCHANGED <<connVars, schedVars, unitVars>>

\* the steps of _process outside the run of the batch
Process(id) ==
    \/ Process_start_job(id)
    \/ Process_check(id, "check_44", "update_5")
    \/ Process_update(id, "update_5", 5, "Saving uploaded file...", "update_10")
    \/ Process_update(id, "update_10", 10, "Reading file data...", "check_62")
    \/ Process_check(id, "check_62", "read")
    \/ Process_update(id, "read", 20, "File loaded", "check_79")
    \/ Process_raise(id, "read")
    \/ Process_check(id, "check_79", "update_25")
    \/ Process_update(id, "update_25", 25,
                      "Initializing automation system...", "update_30")
    \/ Process_update(id, "update_30", 30,
                      IF params[id].max_threads > 1
                      THEN "Multi-threading enabled"
                      ELSE "Single-threaded processing", "update_35")
    \/ Process_update(id, "update_35", 35, "Starting form processing...", "load")
    \/ Process_raise(id, "load")
    \/ Process_choose_mode(id)
    \/ Process_update(id, "update_95", 95,
                      "Processing completed, finalizing...", "complete")
    \/ Process_complete_job(id)

\* --------------------------------------------------------- progress_callback
\* progress_callback, the hook _process puts in place of _update_stats:
\* nothing is counted once the flag is set
progress_callback(id, success) ==
    IF is_cancelled(job[id])
    THEN UNCHANGED <<stats, job>>
    ELSE /\ stats' = [stats EXCEPT ![id] = update_stats(@, success)]
         /\ job' = update_job_progress(id,
                      row_progress(stats'[id].processed, params[id].rows_count),
                      "Processing row")

\* ------------------------------------------------------------ run_batch_mode
\* run_batch_mode up to the jobs: load_data and initialize may fail, and then
\* it returns without processing
run_batch_mode(id, ok) ==
    /\ pc[id] = "run_batch_mode"
    /\ Goto(id, IF ok THEN "batch_rows" ELSE "update_95")
    /\ UNCHANGED <<trackerVars, http, now, sysVars, brokerVars>>
    /\ UNCHANGED <<connVars, schedVars, unitVars>>

\* process_job up to its submit_form call: the next row, on a free thread
process_job_submit(id, r) ==
    /\ pc[id] = "batch_rows"
    /\ rows[id][r] = "todo"
    /\ \A q \in RowIds : q < r => rows[id][q] # "todo"
    /\ Cardinality(Busy(id)) < pool_size(id)
    /\ rows' = [rows EXCEPT ![id][r] = "exec"]
    /\ UNCHANGED <<trackerVars, pc, http, now, stats, brokerVars>>
    /\ UNCHANGED <<connVars, schedVars, unitVars>>

\* process_job from the return of submit_form: _update_stats
process_job_return(id, r, outcome) ==
    /\ pc[id] = "batch_rows"
    /\ rows[id][r] = "exec"
    /\ rows' = [rows EXCEPT ![id][r] = "done"]
    /\ progress_callback(id, outcome = "ok")
    /\ UNCHANGED <<jobs, created, params, pc, http, now, brokerVars>>
    /\ UNCHANGED <<connVars, schedVars, unitVars>>

\* run_batch_mode returns when every row has been processed
run_batch_mode_return(id) ==
    /\ pc[id] = "batch_rows"
    /\ \A r \in RowIds : rows[id][r] \in {"none", "done"}
    /\ Goto(id, "update_95")
    /\ UNCHANGED <<trackerVars, http, now, sysVars, brokerVars>>
    /\ UNCHANGED <<connVars, schedVars, unitVars>>

\* -------------------------------------------------------- run_scheduled_mode
\* run_scheduled_mode: load_data and initialize may fail (return); otherwise
\* schedule_jobs arms one Timer per job and start_worker is entered, which
\* has no return but KeyboardInterrupt
run_scheduled_mode(id, ok) ==
    /\ pc[id] = "run_scheduled_mode"
    /\ IF ok
       THEN /\ timers' = [timers EXCEPT ![id] =
                            {r \in RowIds : rows[id][r] = "todo"}]
            /\ consumer' = [consumer EXCEPT ![id] =
                              [pc |-> "connect", msg |-> NoMsg]]
            /\ Goto(id, "start_worker")
       ELSE /\ UNCHANGED <<timers, consumer>>
            /\ Goto(id, "update_95")
    /\ UNCHANGED <<trackerVars, http, now, sysVars, ready, deliveries, acked,
                   rejected>>
    /\ UNCHANGED <<connVars, schedVars, unitVars>>

\* schedule_job / schedule_job_now: the Timer of row r fires, send_job
\* publishes the job
schedule_job(id, r) ==
    /\ r \in timers[id]
    /\ timers' = [timers EXCEPT ![id] = @ \ {r}]
    /\ ready' = Append(ready, JobMsg(id, r))
    /\ UNCHANGED <<trackerVars, pc, http, now, sysVars, consumer, deliveries,
                   acked, rejected>>
    /\ UNCHANGED <<connVars, schedVars, unitVars>>

\* ------------------------------------------------ RabbitMQHandler.start_worker
\* the head of the loop: ensure_connection, basic_qos, basic_consume,
\* start_consuming
start_worker(s) ==
    /\ consumer[s].pc = "connect"
    /\ consumer' = [consumer EXCEPT ![s].pc = "idle"]
    /\ UNCHANGED <<trackerVars, pc, http, now, sysVars, timers, ready,
                   deliveries, acked, rejected>>
    /\ UNCHANGED <<connVars, schedVars, unitVars>>

\* basic_nack(requeue = True), and the broker's requeue of an unacknowledged
\* message when its channel closes: back to the head of the queue
requeue(m, queue) == <<m>> \o queue

\* a wrapper that acknowledges a job on receipt, before callback_func runs
wrapper_receive_acks(s) ==
    /\ consumer[s].pc = "idle"
    /\ ready # <<>>
    /\ LET m == Head(ready) IN
        /\ deliveries' = [deliveries EXCEPT ![m] = Min(@ + 1, MaxDeliveries)]
        /\ CASE m.kind = "badjson" ->
                  /\ ready' = Tail(ready)
                  /\ rejected' = rejected \cup {m}
                  /\ UNCHANGED <<consumer, acked>>
             [] m.kind = "nondict" ->
                  /\ ready' = requeue(m, Tail(ready))
                  /\ UNCHANGED <<rejected, consumer, acked>>
             [] OTHER ->
                  /\ ready' = Tail(ready)
                  /\ acked' = acked \cup {m}
                  /\ consumer' = [consumer EXCEPT ![s] =
                                    [pc |-> "exec", msg |-> m]]
                  /\ UNCHANGED rejected
    /\ UNCHANGED <<trackerVars, pc, http, now, sysVars, timers>>
    /\ UNCHANGED <<connVars, schedVars, unitVars>>

\* wrapper up to the submit_form call of process_job.  json.loads raises on a
\* body that is no JSON (nack, no requeue); job_data.get raises on JSON that
\* is no object (generic except: nack, requeue); otherwise callback_func runs
wrapper_receive(s) ==
    /\ consumer[s].pc = "idle"
    /\ ready # <<>>
    /\ LET m == Head(ready) IN
        /\ deliveries' = [deliveries EXCEPT ![m] = Min(@ + 1, MaxDeliveries)]
        /\ CASE m.kind = "badjson" ->
                  /\ ready' = Tail(ready)
                  /\ rejected' = rejected \cup {m}
                  /\ UNCHANGED consumer
             [] m.kind = "nondict" ->
                  /\ ready' = requeue(m, Tail(ready))
                  /\ UNCHANGED <<rejected, consumer>>
             [] OTHER ->
                  /\ ready' = Tail(ready)
                  /\ consumer' = [consumer EXCEPT ![s] =
                                    [pc |-> "exec", msg |-> m]]
                  /\ UNCHANGED rejected
    /\ UNCHANGED <<trackerVars, pc, http, now, sysVars, timers, acked>>
    /\ UNCHANGED <<connVars, schedVars, unitVars>>

\* a wrapper that acknowledges whatever callback_func returned
disposition_always_ack(m, success) ==
    [ready |-> ready, acked |-> acked \cup {m}]

\* a wrapper that acknowledges the message and, on failure, requeues it too
disposition_ack_and_nack(m, success) ==
    IF success
    THEN [ready |-> ready, acked |-> acked \cup {m}]
    ELSE [ready |-> requeue(m, ready), acked |-> acked \cup {m}]

\* the disposition wrapper gives the message once callback_func has returned
\* success: [ready, acked] after it
disposition(m, success) ==
    IF success
    THEN [ready |-> ready, acked |-> acked \cup {m}]
    ELSE [ready |-> requeue(m, ready), acked |-> acked]

\* a process_job without its except clause: what submit_form raises reaches
\* the except clause of wrapper, which requeues the message; nothing is counted
wrapper_return_uncaught(outcome) ==
    /\ consumer[0].pc = "exec"
    /\ MayBe(consumer[0].msg, outcome)
    /\ stats' = [stats EXCEPT ![0] =
                   IF outcome = "raise" THEN @ ELSE update_stats(@, outcome = "ok")]
    /\ LET d == disposition(consumer[0].msg, outcome = "ok") IN
        /\ ready' = d.ready
        /\ acked' = d.acked
    /\ consumer' = [consumer EXCEPT ![0] = [pc |-> "idle", msg |-> NoMsg]]
    /\ UNCHANGED <<trackerVars, pc, http, now, rows, timers, deliveries,
                   rejected>>
    /\ UNCHANGED <<connVars, schedVars, unitVars>>

\* wrapper from the return of submit_form, in the stand-alone worker:
\* _update_stats, then basic_ack or basic_nack
wrapper_return(outcome) ==
    /\ consumer[0].pc = "exec"
    /\ MayBe(consumer[0].msg, outcome)
    /\ stats' = [stats EXCEPT ![0] = update_stats(@, outcome = "ok")]
    /\ LET d == disposition(consumer[0].msg, outcome = "ok") IN
        /\ ready' = d.ready
        /\ acked' = d.acked
    /\ consumer' = [consumer EXCEPT ![0] = [pc |-> "idle", msg |-> NoMsg]]
    /\ UNCHANGED <<trackerVars, pc, http, now, rows, timers, deliveries,
                   rejected>>
    /\ UNCHANGED <<connVars, schedVars, unitVars>>

\* wrapper from the return of submit_form, in the worker of tracked job id:
\* progress_callback stands for _update_stats.  With the flag set it calls
\* system.cleanup(): disconnect() stops the consumer and closes the
\* connection from inside the callback.  When the close goes through, the
\* basic_ack / basic_nack that follows raises and the broker requeues the
\* unacknowledged message; when it raises (disconnect swallows it), the
\* message is settled as usual.  Either way start_consuming returns and the
\* loop of start_worker consumes again
wrapper_return_tracked(id, outcome, closed) ==
    /\ consumer[id].pc = "exec"
    /\ MayBe(consumer[id].msg, outcome)
    /\ progress_callback(id, outcome = "ok")
    /\ IF is_cancelled(job[id]) /\ closed
       THEN /\ ready' = requeue(consumer[id].msg, ready)
            /\ UNCHANGED acked
       ELSE LET d == disposition(consumer[id].msg, outcome = "ok") IN
                 /\ ready' = d.ready
                 /\ acked' = d.acked
    /\ consumer' = [consumer EXCEPT ![id] =
                      [pc |-> IF is_cancelled(job[id]) THEN "connect"
                              ELSE "idle",
                       msg |-> NoMsg]]
    /\ UNCHANGED <<jobs, created, params, pc, http, now, rows, timers,
                   deliveries, rejected>>
    /\ UNCHANGED <<connVars, schedVars, unitVars>>

\* ------------------------------------- ensure_connection, connect, the broker
\* The actions below are those of the handler of system 0 and of the threads
\* that share it.

\* thread t is at a call of ensure_connection: the head of the loop of
\* start_worker, or an attempt of send_job
AtEnsure(t) ==
    IF t = 0 THEN consumer[0].pc = "connect" ELSE sender[t].pc = "send_job"

\* the consumer of system 0 once its connection is closed under it:
\* start_consuming raises and the loop of start_worker starts again; a
\* callback that is running runs on, its delivery gone with the channel
closed_consumer ==
    [consumer EXCEPT ![0] =
        CASE @.pc = "idle" -> [pc |-> "connect", msg |-> NoMsg]
          [] @.pc = "exec" -> [pc |-> "exec_closed", msg |-> @.msg]
          [] OTHER -> @]

\* the queue once the connection of the consumer is closed: the broker
\* requeues the delivery that was not settled
closed_ready ==
    IF consumer[0].pc = "exec" THEN requeue(consumer[0].msg, ready) ELSE ready

\* RabbitMQHandler.ensure_connection: True when the connection is there and
\* passes its tests, connect() in every other case
ensure_connection(t) ==
    /\ AtEnsure(t)
    /\ call[t] = "none"
    /\ call' = [call EXCEPT ![t] =
                  IF handler.connection = "open" THEN "true" ELSE "connect"]
    /\ UNCHANGED unitVars
    /\ UNCHANGED <<trackerVars, pc, http, now, sysVars, brokerVars, broker_up,
                   handler, schedVars>>

\* connect, line 110: the seconds it sleeps before it calls itself, the
\* counter at n after the failure
connect_wait_time(n) == Min(2 ^ n, 30)

\* connect, line 53: with self._connection_lock.  A threading.Lock is not
\* reentrant: the thread that holds it waits like any other
connect(t) ==
    /\ call[t] = "connect"
    /\ handler.lock = None
    /\ handler' = [handler EXCEPT !.lock = t]
    /\ call' = [call EXCEPT ![t] = "attempt"]
    /\ UNCHANGED unitVars
    /\ UNCHANGED <<trackerVars, pc, http, now, sysVars, brokerVars, broker_up,
                   schedVars>>

\* connect, lines 54-116, the lock held.  An open connection is closed first,
\* whoever uses it.  Success: the counter is reset, True is returned and the
\* lock released.  Failure: the counter is incremented; below the maximum
\* connect() calls itself, inside the with block; at the maximum it returns
\* False
connect_try(t) ==
    /\ call[t] = "attempt"
    /\ IF broker_up
       THEN /\ handler' = [connection |-> "open", lock |-> None,
                           reconnect_attempts |-> 0, waits |-> <<>>]
            /\ call' = [call EXCEPT ![t] = "true"]
       ELSE LET n == handler.reconnect_attempts + 1 IN
              /\ handler' =
                   [connection |-> IF handler.connection = "open"
                                   THEN "closed" ELSE handler.connection,
                    lock |-> IF n < max_reconnect_attempts THEN t ELSE None,
                    reconnect_attempts |-> n,
                    waits |-> IF n < max_reconnect_attempts
                              THEN Append(handler.waits, connect_wait_time(n))
                              ELSE handler.waits]
              /\ call' = [call EXCEPT ![t] =
                            IF n < max_reconnect_attempts
                            THEN "connect" ELSE "false"]
    /\ IF handler.connection = "open"
       THEN consumer' = closed_consumer /\ ready' = closed_ready
       ELSE UNCHANGED <<consumer, ready>>
    /\ UNCHANGED unitVars
    /\ UNCHANGED <<trackerVars, pc, http, now, sysVars, timers, deliveries,
                   acked, rejected, broker_up, schedVars>>

\* a loop of start_worker that gives up when ensure_connection fails or the
\* consumer cannot be set up
start_worker_consume_or_return ==
    /\ consumer[0].pc = "connect"
    /\ call[0] \in {"true", "false"}
    /\ call' = [call EXCEPT ![0] = "none"]
    /\ consumer' = [consumer EXCEPT ![0].pc =
                      IF call[0] = "true" /\ handler.connection = "open"
                      THEN "idle" ELSE "returned"]
    /\ UNCHANGED unitVars
    /\ UNCHANGED <<trackerVars, pc, http, now, sysVars, timers, ready,
                   deliveries, acked, rejected, broker_up, handler, schedVars>>

\* start_worker from the return of ensure_connection, lines 258-273: False
\* sleeps and starts again; True goes on to basic_qos, basic_consume and
\* start_consuming, and an exception they raise starts again as well
start_worker_consume ==
    /\ consumer[0].pc = "connect"
    /\ call[0] \in {"true", "false"}
    /\ call' = [call EXCEPT ![0] = "none"]
    /\ consumer' = [consumer EXCEPT ![0].pc =
                      IF call[0] = "true" /\ handler.connection = "open"
                      THEN "idle" ELSE "connect"]
    /\ UNCHANGED unitVars
    /\ UNCHANGED <<trackerVars, pc, http, now, sysVars, timers, ready,
                   deliveries, acked, rejected, broker_up, handler, schedVars>>

\* the connection is lost while a callback runs for at most MaxDeliveries - 1
\* deliveries of one message
MayLose ==
    consumer[0].pc = "exec" => deliveries[consumer[0].msg] < MaxDeliveries

\* the broker goes away: the connection is lost
connection_lost ==
    /\ broker_up
    /\ MayLose
    /\ broker_up' = FALSE
    /\ handler' = [handler EXCEPT !.connection =
                      IF @ = "open" THEN "closed" ELSE @]
    /\ consumer' = closed_consumer
    /\ ready' = closed_ready
    /\ UNCHANGED unitVars
    /\ UNCHANGED <<trackerVars, pc, http, now, sysVars, timers, deliveries,
                   acked, rejected, call, schedVars>>

\* the broker is reachable again
broker_restored ==
    /\ ~broker_up
    /\ broker_up' = TRUE
    /\ UNCHANGED unitVars
    /\ UNCHANGED <<trackerVars, pc, http, now, sysVars, brokerVars, handler,
                   call, schedVars>>

\* wrapper from the return of submit_form when the channel of the delivery is
\* gone: _update_stats, then basic_ack or basic_nack raises, the basic_nack
\* of line 251 raises too, and start_consuming raises in its turn
wrapper_return_closed(outcome) ==
    /\ consumer[0].pc = "exec_closed"
    /\ MayBe(consumer[0].msg, outcome)
    /\ stats' = [stats EXCEPT ![0] = update_stats(@, outcome = "ok")]
    /\ consumer' = [consumer EXCEPT ![0] = [pc |-> "connect", msg |-> NoMsg]]
    /\ UNCHANGED unitVars
    /\ UNCHANGED <<trackerVars, pc, http, now, rows, timers, ready, deliveries,
                   acked, rejected, connVars, schedVars>>

\* Ctrl-C in the process of the worker: start_consuming raises
\* KeyboardInterrupt (stop_worker, break); anywhere else in start_worker the
\* exception leaves the function, the with block of connect releasing the
\* lock.  The broker requeues what was not settled
KeyboardInterrupt ==
    /\ consumer[0].pc \notin {"off", "interrupted"}
    /\ consumer' = [consumer EXCEPT ![0] = [pc |-> "interrupted", msg |-> NoMsg]]
    /\ ready' = closed_ready
    /\ call' = [call EXCEPT ![0] = "none"]
    /\ handler' = [handler EXCEPT !.lock = IF @ = 0 THEN None ELSE @]
    /\ UNCHANGED unitVars
    /\ UNCHANGED <<trackerVars, pc, http, now, sysVars, timers, deliveries,
                   acked, rejected, broker_up, schedVars>>

\* ------------------------------------------------- JobScheduler.schedule_jobs
\* the rows of the batch, in the order of the job list
BatchRows == 1..Len(batch)

\* the seconds a Timer is armed with: eta - now for an eta in the future,
\* 0.1 (less than a unit of the clock) for every other job
delay_immediate(eta, t) == 0

\* the seconds a Timer is armed with: eta - now for an eta in the future,
\* 0.1 (less than a unit of the clock) for every other job
delay(eta, t) == IF eta # None /\ eta > t THEN eta - t ELSE 0

\* line 30: now is read once, before the loop
schedule_jobs_begin ==
    /\ scheduler.pc = "schedule_jobs"
    /\ scheduler.now = None
    /\ scheduler' = [scheduler EXCEPT !.now = now]
    /\ UNCHANGED unitVars
    /\ UNCHANGED <<trackerVars, pc, http, now, sysVars, brokerVars, connVars,
                   batch, sender>>

\* the job the loop of schedule_jobs is at
NextJob(r) ==
    /\ scheduler.pc = "schedule_jobs"
    /\ scheduler.now # None
    /\ r \in BatchRows
    /\ sender[r].pc = "off"
    /\ \A q \in BatchRows : q < r => sender[q].pc # "off"

\* a loop that sends the jobs without a future eta itself, before it goes on
schedule_jobs_arm_or_send(r) ==
    /\ NextJob(r)
    /\ sender' = [sender EXCEPT ![r] =
                    IF delay(batch[r], scheduler.now) = 0
                    THEN [pc |-> "send_job", due |-> now, job |-> r,
                          attempt |-> 0, by |-> 0, waits |-> <<>>]
                    ELSE [pc |-> "armed",
                          due |-> now + delay(batch[r], scheduler.now),
                          job |-> r, attempt |-> 0, by |-> None,
                          waits |-> <<>>]]
    /\ UNCHANGED unitVars
    /\ UNCHANGED <<trackerVars, pc, http, now, sysVars, brokerVars, connVars,
                   batch, scheduler>>

\* lines 32-60, one turn of the loop: a Timer is made for the job, with the
\* job bound as the default argument of its function, and started
schedule_jobs_arm(r) ==
    /\ NextJob(r)
    /\ sender' = [sender EXCEPT ![r] =
                    [pc |-> "armed",
                     due |-> now + delay(batch[r], scheduler.now),
                     job |-> r, attempt |-> 0, by |-> None,
                          waits |-> <<>>]]
    /\ UNCHANGED unitVars
    /\ UNCHANGED <<trackerVars, pc, http, now, sysVars, brokerVars, connVars,
                   batch, scheduler>>

\* schedule_jobs returns and run_scheduled_mode enters start_worker
schedule_jobs_return ==
    /\ scheduler.pc = "schedule_jobs"
    /\ scheduler.now # None
    /\ \A r \in BatchRows : sender[r].pc # "off"
    /\ scheduler' = [scheduler EXCEPT !.pc = "returned"]
    /\ consumer' = [consumer EXCEPT ![0] = [pc |-> "connect", msg |-> NoMsg]]
    /\ UNCHANGED unitVars
    /\ UNCHANGED <<trackerVars, pc, http, now, sysVars, timers, ready,
                   deliveries, acked, rejected, connVars, batch, sender>>

\* a Timer whose function reads the loop variable when it runs: the last job
Timer_run_last_job(r) ==
    /\ sender[r].pc = "armed"
    /\ now >= sender[r].due
    /\ sender' = [sender EXCEPT ![r].pc = "send_job", ![r].by = r,
                                ![r].job = Len(batch)]
    /\ UNCHANGED unitVars
    /\ UNCHANGED <<trackerVars, pc, http, now, sysVars, brokerVars, connVars,
                   batch, scheduler>>

\* the Timer of row r has run its interval: on its own thread, schedule_job /
\* schedule_job_now calls send_job with the job it was made with
Timer_run(r) ==
    /\ sender[r].pc = "armed"
    /\ now >= sender[r].due
    /\ sender' = [sender EXCEPT ![r].pc = "send_job", ![r].by = r]
    /\ UNCHANGED unitVars
    /\ UNCHANGED <<trackerVars, pc, http, now, sysVars, brokerVars, connVars,
                   batch, scheduler>>

\* --------------------------------------------------- RabbitMQHandler.send_job
\* a send_job whose first wait is two seconds
send_job_wait_time_from_two(attempt) == 2 ^ (attempt + 1)

\* send_job, line 206: the seconds it sleeps after the failure of attempt
\* number attempt, counted from 0
send_job_wait_time(attempt) == 2 ^ attempt

\* send_job, the except branch of lines 203-211: another turn of the loop
\* after the sleep, or False after the last attempt
send_job_failed(snd) ==
    IF snd.attempt < max_retries - 1
    THEN [snd EXCEPT !.pc = "send_job", !.attempt = @ + 1,
                     !.waits = Append(@, send_job_wait_time(snd.attempt))]
    ELSE [snd EXCEPT !.pc = "false"]

\* send_job from the return of ensure_connection: False raises; True goes on
\* to basic_publish on self.channel
send_job_publish(r) ==
    /\ sender[r].pc = "send_job"
    /\ call[r] \in {"true", "false"}
    /\ call' = [call EXCEPT ![r] = "none"]
    /\ sender' = [sender EXCEPT ![r] =
                    IF call[r] = "true" THEN [@ EXCEPT !.pc = "basic_publish"]
                    ELSE send_job_failed(@)]
    /\ UNCHANGED unitVars
    /\ UNCHANGED <<trackerVars, pc, http, now, sysVars, brokerVars, broker_up,
                   handler, batch, scheduler>>

\* basic_publish returns, and send_job returns True, or raises
send_job_return(r, ok) ==
    /\ sender[r].pc = "basic_publish"
    /\ IF ok /\ handler.connection = "open"
       THEN /\ ready' = Append(ready, JobMsg(0, sender[r].job))
            /\ sender' = [sender EXCEPT ![r].pc = "true"]
       ELSE /\ sender' = [sender EXCEPT ![r] = send_job_failed(@)]
            /\ UNCHANGED ready
    /\ UNCHANGED unitVars
    /\ UNCHANGED <<trackerVars, pc, http, now, sysVars, timers, consumer,
                   deliveries, acked, rejected, connVars, batch, scheduler>>

\* ------------------------------------------------------------ specifications
\* a step of the thread of job id, of its timers or of its worker
Worker(id) ==
    \/ Process(id)
    \/ \E ok \in BOOLEAN : run_batch_mode(id, ok)
    \/ \E r \in RowIds : process_job_submit(id, r)
    \/ \E r \in RowIds, o \in Outcomes : process_job_return(id, r, o)
    \/ run_batch_mode_return(id)
    \/ \E ok \in BOOLEAN : run_scheduled_mode(id, ok)
    \/ \E r \in RowIds : schedule_job(id, r)
    \/ start_worker(id)
    \/ wrapper_receive(id)
    \/ \E o \in Outcomes, closed \in BOOLEAN :
          wrapper_return_tracked(id, o, closed)

\* a request of the HTTP layer, or time passing.  One batch is uploaded: the
\* thread, the system and the JobInfo of a batch are its own, and SpecTracker
\* has the registry with several jobs
Environment ==
    \/ /\ created = 0
       /\ \E n \in RowIds, h \in BOOLEAN, t \in 1..MaxThreads, e \in BOOLEAN :
             process_google_form_background(n, h, t, e)
    \/ \E id \in JobIds : cancel_job_test(id)
    \/ cancel_job_cancel
    \/ Tick

Next == Environment \/ \E id \in JobIds : Worker(id)

\* the API server from the upload of a batch to the end of its processing
\* (nothing in it calls cleanup_old_jobs)
Spec == Init /\ [][Next]_vars

\* every thread that can take a step eventually takes one; requests and the
\* clock are under no obligation
FairSpec == Spec /\ \A id \in JobIds : WF_vars(Worker(id))

\* the queues a stand-alone worker may find when it starts
InitialQueues ==
    {q \in UNION {[1..n -> [batch : {0}, row : RowIds, kind : Kinds]] :
                    n \in 0..MaxQueue} :
        \A i, k \in DOMAIN q : i # k => q[i].row # q[k].row}

\* run_worker_mode
InitWorker ==
    /\ jobs = {}
    /\ job = [id \in JobIds |-> NewJobInfo]
    /\ created = 0
    /\ params = [id \in JobIds |->
                   [rows_count |-> 0, max_threads |-> 1, has_eta |-> FALSE]]
    /\ pc = [id \in JobIds |-> "none"]
    /\ http = [pc |-> "idle", id |-> 0]
    /\ now = 0
    /\ stats = [s \in Systems |-> NoStats]
    /\ rows = [id \in JobIds |-> [r \in RowIds |-> "none"]]
    /\ timers = [id \in JobIds |-> {}]
    /\ ready \in InitialQueues
    /\ consumer = [s \in Systems |->
                     IF s = 0 THEN [pc |-> "connect", msg |-> NoMsg] ELSE Off]
    /\ deliveries = [m \in Msgs |-> 0]
    /\ acked = {}
    /\ rejected = {}
    /\ broker_up = TRUE
    /\ Unscheduled
    /\ Unlocked

NextWorker ==
    \/ start_worker(0)
    \/ wrapper_receive(0)
    \/ \E o \in Outcomes : wrapper_return(o)

\* the worker process: python main.py --mode worker
SpecWorker == InitWorker /\ [][NextWorker]_vars

\* a step of the thread that runs start_worker in system 0
WorkerThread ==
    \/ ensure_connection(0)
    \/ connect(0)
    \/ connect_try(0)
    \/ start_worker_consume
    \/ wrapper_receive(0)
    \/ \E o \in Outcomes : wrapper_return(o)
    \/ \E o \in Outcomes : wrapper_return_closed(o)

\* run_worker_mode, the broker reachable or not when the worker starts
InitConnect ==
    /\ jobs = {}
    /\ job = [id \in JobIds |-> NewJobInfo]
    /\ created = 0
    /\ params = [id \in JobIds |->
                   [rows_count |-> 0, max_threads |-> 1, has_eta |-> FALSE]]
    /\ pc = [id \in JobIds |-> "none"]
    /\ http = [pc |-> "idle", id |-> 0]
    /\ now = 0
    /\ stats = [s \in Systems |-> NoStats]
    /\ rows = [id \in JobIds |-> [r \in RowIds |-> "none"]]
    /\ timers = [id \in JobIds |-> {}]
    /\ ready \in InitialQueues
    /\ consumer = [s \in Systems |->
                     IF s = 0 THEN [pc |-> "connect", msg |-> NoMsg] ELSE Off]
    /\ deliveries = [m \in Msgs |-> 0]
    /\ acked = {}
    /\ rejected = {}
    /\ broker_up \in BOOLEAN
    /\ Unscheduled
    /\ Unlocked

NextConnect ==
    \/ WorkerThread
    \/ connection_lost
    \/ broker_restored
    \/ KeyboardInterrupt

\* the worker process and a broker that comes and goes
SpecConnect == InitConnect /\ [][NextConnect]_vars

\* the thread of the worker takes the steps it can take; the broker and the
\* operator are under no obligation
FairSpecConnect == SpecConnect /\ WF_vars(WorkerThread)

\* what the eta of a job may be
EtaValues == {None} \cup (0..MaxClock)

\* the job lists get_job_list may give
Batches == UNION {[1..n -> EtaValues] : n \in 1..MaxRows}

\* run_scheduled_mode at its call of schedule_jobs
InitSchedule ==
    /\ jobs = {}
    /\ job = [id \in JobIds |-> NewJobInfo]
    /\ created = 0
    /\ params = [id \in JobIds |->
                   [rows_count |-> 0, max_threads |-> 1, has_eta |-> FALSE]]
    /\ pc = [id \in JobIds |-> "none"]
    /\ http = [pc |-> "idle", id |-> 0]
    /\ now = 0
    /\ stats = [s \in Systems |-> NoStats]
    /\ rows = [id \in JobIds |-> [r \in RowIds |-> "none"]]
    /\ timers = [id \in JobIds |-> {}]
    /\ ready = <<>>
    /\ consumer = [s \in Systems |-> Off]
    /\ deliveries = [m \in Msgs |-> 0]
    /\ acked = {}
    /\ rejected = {}
    /\ broker_up \in BOOLEAN
    /\ handler = NewHandler
    /\ call = [t \in Threads |-> "none"]
    /\ batch \in Batches
    /\ scheduler = [pc |-> "schedule_jobs", now |-> None]
    /\ sender = [r \in RowIds |-> NoTimer]
    /\ Unlocked

\* a step of the thread that runs schedule_jobs
SchedulerThread ==
    \/ schedule_jobs_begin
    \/ \E r \in RowIds : schedule_jobs_arm(r)
    \/ schedule_jobs_return

\* a step of the Timer thread of row r; basic_publish succeeds on an open
\* connection (SpecPublish has its failures)
TimerThread(r) ==
    \/ Timer_run(r)
    \/ ensure_connection(r)
    \/ connect(r)
    \/ connect_try(r)
    \/ send_job_publish(r)
    \/ send_job_return(r, TRUE)

\* a step of the thread of run_scheduled_mode once it is inside start_worker,
\* up to the registration of its consumer (SpecWorker and SpecConnect have
\* what the consumer does with the jobs)
ScheduledWorker ==
    \/ ensure_connection(0)
    \/ connect(0)
    \/ connect_try(0)
    \/ start_worker_consume

NextSchedule ==
    \/ SchedulerThread
    \/ \E r \in RowIds : TimerThread(r)
    \/ ScheduledWorker
    \/ broker_restored
    \/ Tick

\* run_scheduled_mode from schedule_jobs on: the Timers, their send_job calls
\* and the worker share the handler of the system.  The broker may be out of
\* reach when the batch is scheduled and come back later (SpecConnect has the
\* loss of a connection)
SpecSchedule == InitSchedule /\ [][NextSchedule]_vars

\* every thread takes the steps it can take
FairSpecSchedule ==
    /\ SpecSchedule
    /\ WF_vars(SchedulerThread)
    /\ WF_vars(ScheduledWorker)
    /\ \A r \in RowIds : WF_vars(TimerThread(r))

\* schedule_jobs called with one job that has no eta
InitPublish ==
    /\ jobs = {}
    /\ job = [id \in JobIds |-> NewJobInfo]
    /\ created = 0
    /\ params = [id \in JobIds |->
                   [rows_count |-> 0, max_threads |-> 1, has_eta |-> FALSE]]
    /\ pc = [id \in JobIds |-> "none"]
    /\ http = [pc |-> "idle", id |-> 0]
    /\ now = 0
    /\ stats = [s \in Systems |-> NoStats]
    /\ rows = [id \in JobIds |-> [r \in RowIds |-> "none"]]
    /\ timers = [id \in JobIds |-> {}]
    /\ ready = <<>>
    /\ consumer = [s \in Systems |-> Off]
    /\ deliveries = [m \in Msgs |-> 0]
    /\ acked = {}
    /\ rejected = {}
    /\ broker_up \in BOOLEAN
    /\ handler = NewHandler
    /\ call = [t \in Threads |-> "none"]
    /\ batch = <<None>>
    /\ scheduler = [pc |-> "schedule_jobs", now |-> None]
    /\ sender = [r \in RowIds |-> NoTimer]
    /\ Unlocked

\* a step of the Timer thread of the job, basic_publish raising or not
PublisherThread ==
    \/ Timer_run(1)
    \/ ensure_connection(1)
    \/ connect(1)
    \/ connect_try(1)
    \/ send_job_publish(1)
    \/ \E ok \in BOOLEAN : send_job_return(1, ok)

NextPublish ==
    \/ SchedulerThread
    \/ PublisherThread
    \/ start_worker_consume
    \/ ensure_connection(0)
    \/ connect(0)
    \/ connect_try(0)
    \/ connection_lost
    \/ broker_restored

\* one send_job call of a Timer, on the handler the worker shares, and a
\* broker that comes and goes
SpecPublish == InitPublish /\ [][NextPublish]_vars

\* the thread of the Timer takes the steps it can take, and so does the
\* thread of the worker
FairSpecPublish ==
    /\ SpecPublish
    /\ WF_vars(PublisherThread)
    /\ WF_vars(start_worker_consume \/ ensure_connection(0) \/ connect(0)
                  \/ connect_try(0))

\* percent arguments of update_job_progress: below, inside and above [0, 100]
ProgressInputs == {-5, 50, 150}

\* JobTracker.create_job alone
create_job ==
    /\ created < MaxJobs
    /\ created' = created + 1
    /\ jobs' = jobs \cup {created + 1}
    /\ job' = [job EXCEPT ![created + 1] = NewJobInfo]
    /\ UNCHANGED <<params, pc, http, now, sysVars, brokerVars>>
    /\ UNCHANGED <<connVars, schedVars, unitVars>>

\* a caller of the tracker API runs start_job
call_start_job(id) ==
    /\ id <= created
    /\ job' = start_job(id)
    /\ UNCHANGED <<jobs, created, params, pc, http, now, sysVars, brokerVars>>
    /\ UNCHANGED <<connVars, schedVars, unitVars>>

\* a caller of the tracker API runs update_job_progress
call_update_job_progress(id, progress) ==
    /\ id <= created
    /\ job' = update_job_progress(id, progress, "progress")
    /\ UNCHANGED <<jobs, created, params, pc, http, now, sysVars, brokerVars>>
    /\ UNCHANGED <<connVars, schedVars, unitVars>>

\* a caller of the tracker API runs complete_job
call_complete_job(id) ==
    /\ id <= created
    /\ job' = complete_job(id)
    /\ UNCHANGED <<jobs, created, params, pc, http, now, sysVars, brokerVars>>
    /\ UNCHANGED <<connVars, schedVars, unitVars>>

\* a caller of the tracker API runs fail_job
call_fail_job(id) ==
    /\ id <= created
    /\ job' = fail_job(id)
    /\ UNCHANGED <<jobs, created, params, pc, http, now, sysVars, brokerVars>>
    /\ UNCHANGED <<connVars, schedVars, unitVars>>

NextTracker ==
    \/ create_job
    \/ \E id \in JobIds : call_start_job(id)
    \/ \E id \in JobIds, p \in ProgressInputs : call_update_job_progress(id, p)
    \/ \E id \in JobIds : call_complete_job(id)
    \/ \E id \in JobIds : call_fail_job(id)
    \/ \E id \in JobIds : cancel_job_test(id)
    \/ cancel_job_cancel
    \/ \E h \in 0..MaxClock : cleanup_old_jobs(h)
    \/ Tick

\* the Job Tracker API of section 6 under any caller: its operations in any
\* order, on any job
SpecTracker == Init /\ [][NextTracker]_vars

\* ------------------------------------------------------------ _update_stats
\* The actions below follow one _update_stats call of the thread that runs
\* process_job for row r, statement by statement: another thread may run
\* between the read and the write of a "+= 1".

\* self._stats_lock is a Lock once set_threading_config has been called, which
\* is also what makes max_threads greater than 1
stats_lock_made(id) == params[id].max_threads > 1

\* an _update_stats whose second "+= 1" is on failed whatever the outcome
outcome_key_failed(success) == "failed"

\* the counter the second "+= 1" of the call is about
outcome_key(success) == IF success THEN "succeeded" ELSE "failed"

\* process_job from the return of submit_form (or from its exception, except
\* branch): _update_stats is called with the outcome
update_stats_call(id, r, outcome) ==
    /\ pc[id] = "batch_rows"
    /\ rows[id][r] = "exec"
    /\ rows' = [rows EXCEPT ![id][r] = "lock"]
    /\ updater' = [updater EXCEPT ![r] =
                     [success |-> outcome = "ok", value |-> 0]]
    /\ UNCHANGED <<trackerVars, pc, http, now, stats, brokerVars, connVars,
                   schedVars, raceVars, stats_lock, fnVars,
                   legacyVars>>

\* an _update_stats that goes on without taking the lock
update_stats_no_lock(id, r) ==
    /\ rows[id][r] = "lock"
    /\ rows' = [rows EXCEPT ![id][r] = "load_processed"]
    /\ UNCHANGED <<trackerVars, pc, http, now, stats, brokerVars, connVars,
                   schedVars, raceVars, statVars, fnVars,
                   legacyVars>>

\* lines 88-89: with self._stats_lock when there is one, lines 97-99 when
\* there is none
update_stats_acquire(id, r) ==
    /\ rows[id][r] = "lock"
    /\ IF stats_lock_made(id)
       THEN stats_lock = None /\ stats_lock' = r
       ELSE UNCHANGED stats_lock
    /\ rows' = [rows EXCEPT ![id][r] = "load_processed"]
    /\ UNCHANGED <<trackerVars, pc, http, now, stats, brokerVars, connVars,
                   schedVars, raceVars, updater, fnVars,
                   legacyVars>>

\* the read of self.stats[key] += 1
update_stats_load(id, r) ==
    /\ rows[id][r] \in {"load_processed", "load_outcome"}
    /\ updater' = [updater EXCEPT ![r].value =
                     IF rows[id][r] = "load_processed"
                     THEN stats[id].processed
                     ELSE stats[id][outcome_key(updater[r].success)]]
    /\ rows' = [rows EXCEPT ![id][r] =
                  IF @ = "load_processed" THEN "store_processed"
                  ELSE "store_outcome"]
    /\ UNCHANGED <<trackerVars, pc, http, now, stats, brokerVars, connVars,
                   schedVars, raceVars, stats_lock, fnVars,
                   legacyVars>>

\* the write of self.stats[key] += 1; after the second one the with block
\* ends and the lock is released
update_stats_store(id, r) ==
    /\ rows[id][r] \in {"store_processed", "store_outcome"}
    /\ stats' = [stats EXCEPT ![id] =
                   IF rows[id][r] = "store_processed"
                   THEN [@ EXCEPT !.processed = updater[r].value + 1]
                   ELSE [@ EXCEPT ![outcome_key(updater[r].success)] =
                                     updater[r].value + 1]]
    /\ rows' = [rows EXCEPT ![id][r] =
                  IF @ = "store_processed" THEN "load_outcome" ELSE "done"]
    /\ stats_lock' = IF rows[id][r] = "store_outcome" /\ stats_lock = r
                     THEN None ELSE stats_lock
    /\ UNCHANGED <<trackerVars, pc, http, now, brokerVars, connVars,
                   schedVars, raceVars, updater, fnVars,
                   legacyVars>>

\* the configurations of a system: the number of jobs of its file, and
\* max_threads as set_threading_config left it
Configs ==
    [rows_count : RowIds, max_threads : 1..MaxThreads, has_eta : {FALSE}]

\* run_batch_mode of system 1 at its first job
InitStats ==
    /\ jobs = {}
    /\ job = [id \in JobIds |-> NewJobInfo]
    /\ created = 0
    /\ \E c \in Configs :
          /\ params = [id \in JobIds |->
                         IF id = 1 THEN c
                         ELSE [rows_count |-> 0, max_threads |-> 1,
                               has_eta |-> FALSE]]
          /\ rows = [id \in JobIds |->
                       [r \in RowIds |->
                          IF id = 1 /\ r <= c.rows_count
                          THEN "todo" ELSE "none"]]
    /\ pc = [id \in JobIds |-> IF id = 1 THEN "batch_rows" ELSE "none"]
    /\ http = [pc |-> "idle", id |-> 0]
    /\ now = 0
    /\ stats = [s \in Systems |-> NoStats]
    /\ timers = [id \in JobIds |-> {}]
    /\ ready = <<>>
    /\ consumer = [s \in Systems |-> Off]
    /\ deliveries = [m \in Msgs |-> 0]
    /\ acked = {}
    /\ rejected = {}
    /\ broker_up = TRUE
    /\ Unscheduled
    /\ Unlocked

NextStats ==
    \/ \E r \in RowIds : process_job_submit(1, r)
    \/ \E r \in RowIds, o \in Outcomes : update_stats_call(1, r, o)
    \/ \E r \in RowIds : update_stats_acquire(1, r)
    \/ \E r \in RowIds : update_stats_load(1, r)
    \/ \E r \in RowIds : update_stats_store(1, r)

\* run_batch_mode of a system whose _update_stats is its own (the
\* /process-form route): the threads of the pool, statement by statement
SpecStats == InitStats /\ [][NextStats]_vars

\* --------------------------------------- progress_callback, call by call
\* The actions below follow progress_callback in the thread that runs
\* process_job for row r of tracked job id: the call of the original
\* _update_stats (which takes the lock of the system when there are several
\* threads), the read of system.stats['processed'] after it, outside that
\* lock, and the call of update_job_progress with the value computed from
\* what was read.

\* lines 113-124: with the flag set nothing is counted and nothing is
\* reported; otherwise original_update_stats(success, row_id)
progress_callback_count(id, r, outcome) ==
    /\ pc[id] = "batch_rows"
    /\ rows[id][r] = "exec"
    /\ IF is_cancelled(job[id])
       THEN /\ rows' = [rows EXCEPT ![id][r] = "done"]
            /\ UNCHANGED stats
       ELSE /\ rows' = [rows EXCEPT ![id][r] = "read_processed"]
            /\ stats' = [stats EXCEPT ![id] = update_stats(@, outcome = "ok")]
    /\ UNCHANGED <<trackerVars, pc, http, now, brokerVars, connVars,
                   schedVars, raceVars, statVars, fnVars, legacyVars>>

\* line 127: processed = system.stats['processed']
progress_callback_read(id, r) ==
    /\ rows[id][r] = "read_processed"
    /\ updater' = [updater EXCEPT ![r].value = stats[id].processed]
    /\ rows' = [rows EXCEPT ![id][r] = "report"]
    /\ UNCHANGED <<trackerVars, pc, http, now, stats, brokerVars, connVars,
                   schedVars, raceVars, stats_lock, fnVars, legacyVars>>

\* lines 128-133: update_job_progress with the value of the row count read
progress_callback_report(id, r) ==
    /\ rows[id][r] = "report"
    /\ job' = update_job_progress(id,
                 row_progress(updater[r].value, params[id].rows_count),
                 "Processing row")
    /\ rows' = [rows EXCEPT ![id][r] = "done"]
    /\ UNCHANGED <<jobs, created, params, pc, http, now, stats, brokerVars,
                   connVars, schedVars, unitVars>>

\* _process of job 1 after update_job_progress(job_id, 35, ...), its file
\* without an eta
InitProgress ==
    /\ jobs = {1}
    /\ job = [id \in JobIds |->
                IF id = 1
                THEN update_progress(start(NewJobInfo, 0), 35,
                                     "Starting form processing...")
                ELSE NewJobInfo]
    /\ created = 1
    /\ \E c \in Configs :
          params = [id \in JobIds |->
                      IF id = 1 THEN c
                      ELSE [rows_count |-> 0, max_threads |-> 1,
                            has_eta |-> FALSE]]
    /\ rows = [id \in JobIds |-> [r \in RowIds |-> "none"]]
    /\ pc = [id \in JobIds |-> IF id = 1 THEN "load" ELSE "none"]
    /\ http = [pc |-> "idle", id |-> 0]
    /\ now = 0
    /\ stats = [s \in Systems |-> NoStats]
    /\ timers = [id \in JobIds |-> {}]
    /\ ready = <<>>
    /\ consumer = [s \in Systems |-> Off]
    /\ deliveries = [m \in Msgs |-> 0]
    /\ acked = {}
    /\ rejected = {}
    /\ broker_up = TRUE
    /\ Unscheduled
    /\ Unlocked

NextProgress ==
    \/ Process_choose_mode(1)
    \/ \E ok \in BOOLEAN : run_batch_mode(1, ok)
    \/ \E r \in RowIds : process_job_submit(1, r)
    \/ \E r \in RowIds, o \in Outcomes : progress_callback_count(1, r, o)
    \/ \E r \in RowIds : progress_callback_read(1, r)
    \/ \E r \in RowIds : progress_callback_report(1, r)
    \/ run_batch_mode_return(1)
    \/ Process_update(1, "update_95", 95,
                      "Processing completed, finalizing...", "complete")
    \/ Process_complete_job(1)

\* a tracked batch in batch mode from the choice of the mode to the end, the
\* progress_callback of every thread of its pool call by call
SpecProgress == InitProgress /\ [][NextProgress]_vars

\* ------------------------------------------- the tracker, statement by statement
\* The actions below follow the operations on one JobInfo assignment by
\* assignment: the _process thread of the job runs the operations of the
\* JobTracker, the event loop runs cancel_job.  (result, error and thread_ref
\* are written too; nothing reads them here.)

TrackerOps == {"start_job", "update_job_progress", "complete_job", "fail_job"}

\* the assignments of JobInfo.update_progress, in their order
update_progress_statements(progress, message) ==
    << [field |-> "progress", value |-> Max(0, Min(100, progress))],
       [field |-> "message", value |-> message],
       [field |-> "logs", value |-> message] >>

\* the assignments of an operation at time t, in their order: JobInfo.start,
\* update_progress, complete, fail and cancel
Statements(op, t) ==
    CASE op = "start_job" ->
           << [field |-> "status", value |-> PROCESSING],
              [field |-> "started_at", value |-> t] >>
             \o update_progress_statements(0, "Job started")
      [] op = "update_job_progress" ->
           update_progress_statements(50, "progress")
      [] op = "complete_job" ->
           << [field |-> "status", value |-> COMPLETED],
              [field |-> "completed_at", value |-> t] >>
             \o update_progress_statements(100, "Job completed successfully")
      [] op = "fail_job" ->
           << [field |-> "status", value |-> FAILED],
              [field |-> "completed_at", value |-> t],
              [field |-> "message", value |-> "Job failed"] >>
      [] op = "cancel" ->
           << [field |-> "cancel_requested", value |-> TRUE],
              [field |-> "status", value |-> CANCELLED],
              [field |-> "completed_at", value |-> t],
              [field |-> "message", value |-> "Job cancelled by user"] >>

\* one assignment to the JobInfo of job id
Assign(id, st) ==
    IF st.field = "logs"
    THEN /\ logs' = [logs EXCEPT ![id] = st.value]
         /\ UNCHANGED job
    ELSE /\ job' = [job EXCEPT ![id] = [@ EXCEPT ![st.field] = st.value]]
         /\ UNCHANGED logs

\* start_job, update_job_progress, complete_job, fail_job: with self._lock
tracker_acquire(t, op) ==
    /\ t \in jobs
    /\ writer[t].op = "none"
    /\ tracker_lock = None
    /\ tracker_lock' = t
    /\ writer' = [writer EXCEPT ![t] = [op |-> op, id |-> t, done |-> 0]]
    /\ UNCHANGED <<trackerVars, pc, http, now, sysVars, brokerVars, connVars,
                   schedVars, logs, statVars, fnVars,
                   legacyVars>>

\* the next assignment of the operation thread t is inside; the with block
\* ends after the last one
tracker_statement(t) ==
    /\ writer[t].op \in TrackerOps
    /\ LET ss == Statements(writer[t].op, now)
           k == writer[t].done + 1 IN
        /\ Assign(writer[t].id, ss[k])
        /\ IF k = Len(ss)
           THEN /\ writer' = [writer EXCEPT ![t] = NoWrite]
                /\ tracker_lock' = None
           ELSE /\ writer' = [writer EXCEPT ![t].done = k]
                /\ UNCHANGED tracker_lock
    /\ UNCHANGED <<jobs, created, params, pc, http, now, sysVars, brokerVars,
                   connVars, schedVars, statVars, fnVars,
                   legacyVars>>

\* cancel_job past its status test: the next assignment of job.cancel(),
\* called without the lock of the tracker
cancel_statement ==
    /\ http.pc = "cancel"
    /\ LET ss == Statements("cancel", now)
           k == writer[0].done + 1 IN
        /\ Assign(http.id, ss[k])
        /\ IF k = Len(ss)
           THEN /\ writer' = [writer EXCEPT ![0] = NoWrite]
                /\ http' = [pc |-> "idle", id |-> 0]
           ELSE /\ writer' = [writer EXCEPT ![0] =
                                [op |-> "cancel", id |-> http.id, done |-> k]]
                /\ UNCHANGED http
    /\ UNCHANGED <<jobs, created, params, pc, now, sysVars, brokerVars,
                   connVars, schedVars, tracker_lock, statVars, fnVars,
                   legacyVars>>

\* job 1 has been created and its thread started
InitRace ==
    /\ jobs = {1}
    /\ job = [id \in JobIds |-> NewJobInfo]
    /\ created = 1
    /\ params = [id \in JobIds |->
                   [rows_count |-> 0, max_threads |-> 1, has_eta |-> FALSE]]
    /\ pc = [id \in JobIds |-> "none"]
    /\ http = [pc |-> "idle", id |-> 0]
    /\ now = 0
    /\ stats = [s \in Systems |-> NoStats]
    /\ rows = [id \in JobIds |-> [r \in RowIds |-> "none"]]
    /\ timers = [id \in JobIds |-> {}]
    /\ ready = <<>>
    /\ consumer = [s \in Systems |-> Off]
    /\ deliveries = [m \in Msgs |-> 0]
    /\ acked = {}
    /\ rejected = {}
    /\ broker_up = TRUE
    /\ Unscheduled
    /\ Unlocked

NextRace ==
    \/ \E op \in TrackerOps : tracker_acquire(1, op)
    \/ tracker_statement(1)
    \/ cancel_job_test(1)
    \/ cancel_statement

\* one tracked job: its thread inside the operations of the tracker, the
\* HTTP layer inside cancel_job, every attribute assignment a step
SpecRace == InitRace /\ [][NextRace]_vars

\* ------------------------------------------------ job records and their JSON
\* Python values, by type: v is the string of a str, the number of an int,
\* the clock reading of a datetime, the items of a list, the (key, value)
\* pairs of a dict in insertion order
PyNone == [t |-> "none", v |-> ""]
PyStr(s) == [t |-> "str", v |-> s]
PyInt(n) == [t |-> "int", v |-> n]
PyDatetime(n) == [t |-> "datetime", v |-> n]
PyList(items) == [t |-> "list", v |-> items]
PyDict(pairs) == [t |-> "dict", v |-> pairs]

\* dict[key]
Get(d, key) == d.v[CHOOSE i \in DOMAIN d.v : d.v[i].k = key].v

\* datetime.isoformat()
isoformat(n) == "T" \o ToString(n)

\* a _make_serializable that turns every value that is no dict and no list
\* into its str()
RECURSIVE make_serializable_str(_)
make_serializable_str(obj) ==
    CASE obj.t = "dict" ->
           PyDict([i \in DOMAIN obj.v |->
                     [k |-> obj.v[i].k, v |-> make_serializable_str(obj.v[i].v)]])
      [] obj.t = "list" ->
           PyList([i \in DOMAIN obj.v |-> make_serializable_str(obj.v[i])])
      [] obj.t = "datetime" -> PyStr(isoformat(obj.v))
      [] obj.t = "int" -> PyStr(ToString(obj.v))
      [] obj.t = "none" -> PyStr("None")
      [] OTHER -> obj

\* RabbitMQHandler._make_serializable
RECURSIVE make_serializable(_)
make_serializable(obj) ==
    CASE obj.t = "dict" ->
           PyDict([i \in DOMAIN obj.v |->
                     [k |-> obj.v[i].k, v |-> make_serializable(obj.v[i].v)]])
      [] obj.t = "list" ->
           PyList([i \in DOMAIN obj.v |-> make_serializable(obj.v[i])])
      [] obj.t = "datetime" -> PyStr(isoformat(obj.v))
      [] OTHER -> obj

\* the text of a JSON document, token by token: punctuation, string
\* literals, number literals (by their digits) and null
Punct(c) == <<"punct", c>>

\* json.dumps (a datetime is not serializable: TypeError)
RECURSIVE dumps(_)
dumps(obj) ==
    CASE obj.t = "str" -> << <<"string", obj.v>> >>
      [] obj.t = "int" -> << <<"number", ToString(obj.v)>> >>
      [] obj.t = "none" -> << <<"null", "">> >>
      [] obj.t = "list" ->
           LET RECURSIVE items(_)
               items(i) ==
                   IF i > Len(obj.v) THEN <<>>
                   ELSE (IF i > 1 THEN <<Punct(",")>> ELSE <<>>)
                          \o dumps(obj.v[i]) \o items(i + 1)
           IN <<Punct("[")>> \o items(1) \o <<Punct("]")>>
      [] obj.t = "dict" ->
           LET RECURSIVE members(_)
               members(i) ==
                   IF i > Len(obj.v) THEN <<>>
                   ELSE (IF i > 1 THEN <<Punct(",")>> ELSE <<>>)
                          \o << <<"string", obj.v[i].k>>, Punct(":") >>
                          \o dumps(obj.v[i].v) \o members(i + 1)
           IN <<Punct("{")>> \o members(1) \o <<Punct("}")>>
      [] OTHER -> << <<"TypeError", "">> >>

\* the numbers a job record holds
Numbers == 0..(MaxRows + 1)

\* int() of the digits of a number literal
int(digits) == CHOOSE n \in Numbers : ToString(n) = digits

\* the JSON decoder at token i of text: the value that starts there and the
\* index of the token after it
RECURSIVE decode(_, _)
decode(text, i) ==
    LET tok == text[i] IN
    CASE tok[1] = "string" -> [val |-> PyStr(tok[2]), next |-> i + 1]
      [] tok[1] = "number" -> [val |-> PyInt(int(tok[2])), next |-> i + 1]
      [] tok[1] = "null" -> [val |-> PyNone, next |-> i + 1]
      [] tok = Punct("[") ->
           LET RECURSIVE items(_, _)
               items(j, acc) ==
                   IF text[j] = Punct("]")
                   THEN [val |-> PyList(acc), next |-> j + 1]
                   ELSE LET e == decode(text,
                                        IF text[j] = Punct(",") THEN j + 1 ELSE j)
                        IN items(e.next, Append(acc, e.val))
           IN items(i + 1, <<>>)
      [] tok = Punct("{") ->
           LET RECURSIVE members(_, _)
               members(j, acc) ==
                   IF text[j] = Punct("}")
                   THEN [val |-> PyDict(acc), next |-> j + 1]
                   ELSE LET k == IF text[j] = Punct(",") THEN j + 1 ELSE j
                            e == decode(text, k + 2)
                        IN members(e.next,
                                   Append(acc, [k |-> text[k][2], v |-> e.val]))
           IN members(i + 1, <<>>)

\* json.loads
loads(text) == decode(text, 1).val

\* the values a field of the form may have: a string or a list of strings
FormValues ==
    {PyStr("a"), PyStr("1"), PyList(<<>>), PyList(<<PyStr("a"), PyStr("b")>>)}

\* form_data: no field, one field or two
FormData ==
    {PyDict(<<>>)}
      \cup {PyDict(<<[k |-> "entry.1", v |-> x]>>) : x \in FormValues}
      \cup {PyDict(<<[k |-> "entry.1", v |-> x], [k |-> "entry.2", v |-> y]>>) :
              x \in FormValues, y \in FormValues}

\* priority: get_job_list makes it a string; a number and None stand for
\* what another producer may put there
Priorities == {PyStr("normal"), PyStr("1"), PyInt(1), PyNone}

\* eta: None or a datetime
Etas == {PyNone} \cup {PyDatetime(n) : n \in 0..MaxClock}

\* the job records of get_job_list
JobRecords ==
    {PyDict(<<[k |-> "row_id", v |-> PyInt(r)], [k |-> "form_data", v |-> f],
              [k |-> "priority", v |-> p], [k |-> "eta", v |-> e]>>) :
        r \in RowIds, f \in FormData, p \in Priorities, e \in Etas}

\* nothing has been published and nothing received
NoOutput == [body |-> <<>>, job_data |-> PyNone]

\* send_job, lines 187-188: the body of the message
send_job_dumps ==
    /\ output.body = <<>>
    /\ output' = [output EXCEPT !.body = dumps(make_serializable(input))]
    /\ UNCHANGED <<trackerVars, pc, http, now, sysVars, brokerVars, connVars,
                   schedVars, raceVars, statVars, input,
                   legacyVars>>

\* wrapper, line 231: job_data = json.loads(body)
wrapper_loads ==
    /\ output.body # <<>>
    /\ output.job_data = PyNone
    /\ output' = [output EXCEPT !.job_data = loads(output.body)]
    /\ UNCHANGED <<trackerVars, pc, http, now, sysVars, brokerVars, connVars,
                   schedVars, raceVars, statVars, input,
                   legacyVars>>

\* a job record is handed to send_job
InitRoundTrip ==
    /\ jobs = {}
    /\ job = [id \in JobIds |-> NewJobInfo]
    /\ created = 0
    /\ params = [id \in JobIds |->
                   [rows_count |-> 0, max_threads |-> 1, has_eta |-> FALSE]]
    /\ pc = [id \in JobIds |-> "none"]
    /\ http = [pc |-> "idle", id |-> 0]
    /\ now = 0
    /\ stats = [s \in Systems |-> NoStats]
    /\ rows = [id \in JobIds |-> [r \in RowIds |-> "none"]]
    /\ timers = [id \in JobIds |-> {}]
    /\ ready = <<>>
    /\ consumer = [s \in Systems |-> Off]
    /\ deliveries = [m \in Msgs |-> 0]
    /\ acked = {}
    /\ rejected = {}
    /\ broker_up = TRUE
    /\ Unscheduled
    /\ tracker_lock = None
    /\ writer = [t \in TrackerThreads |-> NoWrite]
    /\ logs = [id \in JobIds |-> ""]
    /\ stats_lock = None
    /\ updater = [r \in RowIds |-> NoUpdate]
    /\ input \in JobRecords
    /\ output = NoOutput
    /\ legacy_mq = None
    /\ legacy_schedule = None

NextRoundTrip == send_job_dumps \/ wrapper_loads

\* a job record from send_job to the callback of the consumer
SpecRoundTrip == InitRoundTrip /\ [][NextRoundTrip]_vars

\* ------------------------------------------------- a batch, from list to handler
\* a schedule_jobs that sends the jobs of high priority at once
timer_delay_by_priority(job_data, t) ==
    IF Get(job_data, "priority") = PyStr("high") THEN 0
    ELSE LET eta == Get(job_data, "eta") IN
           delay(IF eta.t = "datetime" THEN eta.v ELSE None, t)

\* schedule_jobs, lines 33-58, on a job record: the seconds its Timer is armed
\* with
timer_delay(job_data, t) ==
    LET eta == Get(job_data, "eta") IN
      delay(IF eta.t = "datetime" THEN eta.v ELSE None, t)

\* the order in which Timers armed with these delays fall due: by delay, and
\* by the order of arming for equal delays
due_order(delays) ==
    LET rank(i) ==
          Cardinality({j \in DOMAIN delays :
                         \/ delays[j] < delays[i]
                         \/ delays[j] = delays[i] /\ j < i}) + 1
    IN [k \in DOMAIN delays |-> CHOOSE i \in DOMAIN delays : rank(i) = k]

\* one run of a job list at time t: the delays of the Timers schedule_jobs
\* arms, in the order of the list; the row ids in the order send_job
\* publishes them when every Timer runs as it falls due; the records the
\* callback gets, in the order of the queue (send_job sets no priority
\* property and the queue is declared without priorities: first in, first
\* out)
run_scheduled(job_list, t) ==
    LET delays == [i \in DOMAIN job_list |-> timer_delay(job_list[i], t)]
        order == due_order(delays)
    IN [timers |-> delays,
        published |-> [k \in DOMAIN order |->
                         Get(job_list[order[k]], "row_id").v],
        handled |-> [k \in DOMAIN order |->
                       loads(dumps(make_serializable(job_list[order[k]])))]]

\* the priorities of a file
PriorityValues == {PyStr("normal"), PyStr("high")}

\* the job lists get_job_list may give for the etas of a batch and the
\* priorities pr of its rows
job_list_of(etas, pr) ==
    [i \in DOMAIN etas |->
       PyDict(<<[k |-> "row_id", v |-> PyInt(i)],
                [k |-> "form_data", v |-> PyDict(<<>>)],
                [k |-> "priority", v |-> pr[i]],
                [k |-> "eta", v |-> IF etas[i] = None THEN PyNone
                                    ELSE PyDatetime(etas[i])]>>)]

\* two job lists that differ at most in the priorities of their jobs, and the
\* time both are scheduled at
RunPairs ==
    UNION {[a : {job_list_of(etas, pa) : pa \in [DOMAIN etas -> PriorityValues]},
            b : {job_list_of(etas, pb) : pb \in [DOMAIN etas -> PriorityValues]},
            now : 0..MaxClock] : etas \in Batches}

\* no run has been made
NoRuns == [made |-> FALSE, a |-> <<>>, b |-> <<>>]

\* both lists are run
run_both ==
    /\ ~output.made
    /\ output' = [made |-> TRUE,
                  a |-> run_scheduled(input.a, input.now),
                  b |-> run_scheduled(input.b, input.now)]
    /\ UNCHANGED <<trackerVars, pc, http, now, sysVars, brokerVars, connVars,
                   schedVars, raceVars, statVars, input,
                   legacyVars>>

\* two runs of run_scheduled_mode are about to start
InitPriority ==
    /\ jobs = {}
    /\ job = [id \in JobIds |-> NewJobInfo]
    /\ created = 0
    /\ params = [id \in JobIds |->
                   [rows_count |-> 0, max_threads |-> 1, has_eta |-> FALSE]]
    /\ pc = [id \in JobIds |-> "none"]
    /\ http = [pc |-> "idle", id |-> 0]
    /\ now = 0
    /\ stats = [s \in Systems |-> NoStats]
    /\ rows = [id \in JobIds |-> [r \in RowIds |-> "none"]]
    /\ timers = [id \in JobIds |-> {}]
    /\ ready = <<>>
    /\ consumer = [s \in Systems |-> Off]
    /\ deliveries = [m \in Msgs |-> 0]
    /\ acked = {}
    /\ rejected = {}
    /\ broker_up = TRUE
    /\ Unscheduled
    /\ tracker_lock = None
    /\ writer = [t \in TrackerThreads |-> NoWrite]
    /\ logs = [id \in JobIds |-> ""]
    /\ stats_lock = None
    /\ updater = [r \in RowIds |-> NoUpdate]
    /\ input \in RunPairs
    /\ output = NoRuns
    /\ legacy_mq = None
    /\ legacy_schedule = None

\* the same batch run twice, the priorities of its jobs apart
SpecPriority == InitPriority /\ [][run_both]_vars

\* ------------------------------------------- run_scheduled_mode, run again
\* the batch an earlier run published and did not see acknowledged
earlier_run == 1

\* what an earlier run that was aborted may have left in the durable queue
StaleQueues ==
    {q \in UNION {[1..n -> {JobMsg(earlier_run, r) : r \in RowIds}] :
                    n \in 1..MaxQueue} :
        \A i, k \in DOMAIN q : i # k => q[i].row # q[k].row}

\* run_scheduled_mode at its call of schedule_jobs, the queue as the earlier
\* run left it: nothing between the start of the run and this call touches
\* the queue
InitRestart ==
    /\ jobs = {}
    /\ job = [id \in JobIds |-> NewJobInfo]
    /\ created = 0
    /\ params = [id \in JobIds |->
                   [rows_count |-> 0, max_threads |-> 1, has_eta |-> FALSE]]
    /\ pc = [id \in JobIds |-> "none"]
    /\ http = [pc |-> "idle", id |-> 0]
    /\ now = 0
    /\ stats = [s \in Systems |-> NoStats]
    /\ rows = [id \in JobIds |-> [r \in RowIds |-> "none"]]
    /\ timers = [id \in JobIds |-> {}]
    /\ ready \in StaleQueues
    /\ consumer = [s \in Systems |-> Off]
    /\ deliveries = [m \in Msgs |-> 0]
    /\ acked = {}
    /\ rejected = {}
    /\ broker_up = TRUE
    /\ handler = NewHandler
    /\ call = [t \in Threads |-> "none"]
    /\ batch = <<None>>
    /\ scheduler = [pc |-> "schedule_jobs", now |-> None]
    /\ sender = [r \in RowIds |-> NoTimer]
    /\ Unlocked

NextRestart ==
    \/ SchedulerThread
    \/ \E r \in RowIds : TimerThread(r)
    \/ ScheduledWorker
    \/ wrapper_receive(0)
    \/ \E o \in Outcomes : wrapper_return(o)

\* a scheduled run of one job, started on the queue of an earlier run: its
\* Timer, its send_job and its worker
SpecRestart == InitRestart /\ [][NextRestart]_vars

\* the success_rate of the result of a batch, in hundredths of a percent:
\* round(succeeded / processed * 100, 2) if processed > 0 else 0
success_rate(st) ==
    IF st.processed > 0
    THEN (2 * 10000 * st.succeeded + st.processed) \div (2 * st.processed)
    ELSE 0

\* --------------------------------------- src/rabbitmq_handler.py, the consumer
\* send_to_queue, line 138: 'max_retries': 3
message_max_retries == 3

\* the message send_to_queue publishes for row r
QueueMessage(r) ==
    [row |-> r, retry_count |-> 0, max_retries |-> message_max_retries]
NoQueueMessage == [row |-> 0, retry_count |-> 0, max_retries |-> 0]

\* the calls of callback_function that are counted for one row
MaxRuns == message_max_retries + 2

\* a wrapper_callback that retries a message once more
may_retry_once_more(retry_count, limit) == retry_count <= limit

\* wrapper_callback, line 195: if retry_count < max_retries (limit)
may_retry(retry_count, limit) == retry_count < limit

\* none of the variables of the service under src/src is in use
ServiceIdle ==
    /\ jobs = {}
    /\ job = [id \in JobIds |-> NewJobInfo]
    /\ created = 0
    /\ params = [id \in JobIds |->
                   [rows_count |-> 0, max_threads |-> 1, has_eta |-> FALSE]]
    /\ pc = [id \in JobIds |-> "none"]
    /\ http = [pc |-> "idle", id |-> 0]
    /\ now = 0
    /\ stats = [s \in Systems |-> NoStats]
    /\ rows = [id \in JobIds |-> [r \in RowIds |-> "none"]]
    /\ timers = [id \in JobIds |-> {}]
    /\ ready = <<>>
    /\ consumer = [s \in Systems |-> Off]
    /\ deliveries = [m \in Msgs |-> 0]
    /\ acked = {}
    /\ rejected = {}
    /\ broker_up = TRUE
    /\ Unscheduled
    /\ tracker_lock = None
    /\ writer = [t \in TrackerThreads |-> NoWrite]
    /\ logs = [id \in JobIds |-> ""]
    /\ stats_lock = None
    /\ updater = [r \in RowIds |-> NoUpdate]
    /\ input = None
    /\ output = None

\* start_consumer has registered wrapper_callback; the queue holds messages
\* of send_to_queue, one for a row
InitLegacyConsumer ==
    /\ ServiceIdle
    /\ \E q \in UNION {{[i \in 1..n |-> QueueMessage(g[i])] :
                          g \in {f \in [1..n -> RowIds] :
                                   \A i, k \in 1..n : i # k => f[i] # f[k]}} :
                       n \in 1..Min(MaxQueue, MaxRows)} :
          legacy_mq = [ready |-> q, handling |-> NoQueueMessage,
                       retrying |-> {}, acked |-> {}, rejected |-> {},
                       runs |-> [r \in RowIds |-> 0]]
    /\ legacy_schedule = None

\* wrapper_callback, lines 176-184: json.loads, then callback_function is
\* called with the job of the message
wrapper_callback_receive ==
    /\ legacy_mq.handling = NoQueueMessage
    /\ legacy_mq.ready # <<>>
    /\ LET m == Head(legacy_mq.ready) IN
         legacy_mq' = [legacy_mq EXCEPT
                         !.ready = Tail(@),
                         !.handling = m,
                         !.runs[m.row] = Min(@ + 1, MaxRuns)]
    /\ UNCHANGED <<trackerVars, pc, http, now, sysVars, brokerVars, connVars,
                   schedVars, raceVars, statVars, fnVars, legacy_schedule>>

\* wrapper_callback, lines 186-204, callback_function having returned
\* success: basic_ack; or, on failure, send_retry_message with retry_count
\* + 1 and basic_ack, or basic_nack(requeue = False)
wrapper_callback_return(success) ==
    /\ legacy_mq.handling # NoQueueMessage
    /\ LET m == legacy_mq.handling IN
         legacy_mq' =
           IF success
           THEN [legacy_mq EXCEPT !.handling = NoQueueMessage,
                                  !.acked = @ \cup {m}]
           ELSE IF may_retry(m.retry_count, m.max_retries)
           THEN [legacy_mq EXCEPT
                   !.handling = NoQueueMessage,
                   !.retrying = @ \cup {[m EXCEPT !.retry_count = @ + 1]},
                   !.acked = @ \cup {m}]
           ELSE [legacy_mq EXCEPT !.handling = NoQueueMessage,
                                  !.rejected = @ \cup {m}]
    /\ UNCHANGED <<trackerVars, pc, http, now, sysVars, brokerVars, connVars,
                   schedVars, raceVars, statVars, fnVars, legacy_schedule>>

\* send_retry_message.retry_job, on its own thread after its sleep:
\* basic_publish on the channel of the consumer, which either publishes the
\* message or raises in the thread
retry_job(m, published) ==
    /\ m \in legacy_mq.retrying
    /\ legacy_mq' = [legacy_mq EXCEPT
                       !.retrying = @ \ {m},
                       !.ready = IF published THEN Append(@, m) ELSE @]
    /\ UNCHANGED <<trackerVars, pc, http, now, sysVars, brokerVars, connVars,
                   schedVars, raceVars, statVars, fnVars, legacy_schedule>>

NextLegacyConsumer ==
    \/ wrapper_callback_receive
    \/ \E success \in BOOLEAN : wrapper_callback_return(success)
    \/ \E r \in RowIds, c \in 0..(message_max_retries + 1),
          published \in BOOLEAN :
          retry_job([row |-> r, retry_count |-> c,
                     max_retries |-> message_max_retries], published)

\* the consumer of src/rabbitmq_handler.py with a callback that returns True
\* or False, its connection up
SpecLegacyConsumer == InitLegacyConsumer /\ [][NextLegacyConsumer]_vars

\* ------------------------------------------- src/scheduler.py, JobScheduler
DayLength == 2        \* times of day ('%H:%M') that are told apart
MaxDay == 1           \* days after today an eta may lie on

\* the instants of the clock: today from 0, DayLength to a day
Instants == 0..((MaxDay + 1) * DayLength - 1)

\* eta_dt_wib.strftime('%H:%M'): the time of day of an instant, its date left
\* out
strftime_HM(t) == t % DayLength

\* schedule.every().day.at(time): the job is next run at the first instant
\* after t with that time of day, today if it is still to come, and
\* otherwise tomorrow
every_day_at(time, t) ==
    IF time > strftime_HM(t)
    THEN t - strftime_HM(t) + time
    ELSE t - strftime_HM(t) + DayLength + time

\* schedule.every(1).seconds: the job is next run one second after t, which
\* no reading of the clock tells from t
every_second(t) == t

\* no job of the schedule module
NoSchedule ==
    [eta |-> [r \in RowIds |-> None],
     next_run |-> [r \in RowIds |-> None],
     added |-> 0,
     sent |-> [r \in RowIds |-> <<>>]]

\* the files of jobs that all have an eta: the eta of every row
EtaFiles == UNION {[1..n -> Instants \ {0}] : n \in 1..MaxRows}

\* load_jobs_from_csv is about to call add_job_from_data for the first row
InitLegacyScheduler ==
    /\ ServiceIdle
    /\ legacy_mq = None
    /\ \E f \in EtaFiles :
          legacy_schedule =
            [NoSchedule EXCEPT
               !.eta = [r \in RowIds |-> IF r \in DOMAIN f THEN f[r] ELSE None]]

\* add_job_from_data of the next row, which has an eta: schedule_eta_job.
\* An eta that is not after now is scheduled at once; for a later one the job
\* is registered with every().day.at() on the time of day of the eta
schedule_eta_job(r) ==
    /\ r = legacy_schedule.added + 1
    /\ r \in RowIds
    /\ legacy_schedule.eta[r] # None
    /\ legacy_schedule' =
         [legacy_schedule EXCEPT
            !.added = r,
            !.next_run[r] =
               IF legacy_schedule.eta[r] <= now
               THEN every_second(now)
               ELSE every_day_at(strftime_HM(legacy_schedule.eta[r]), now)]
    /\ UNCHANGED <<trackerVars, pc, http, now, sysVars, brokerVars, connVars,
                   schedVars, raceVars, statVars, fnVars, legacy_mq>>

\* run_scheduler: schedule.run_pending() runs the job of row r, which is
\* due: execute_job sends the job to the queue (or submits it) and clears
\* the tag of the row
execute_job(r) ==
    /\ legacy_schedule.next_run[r] # None
    /\ legacy_schedule.next_run[r] <= now
    /\ legacy_schedule' =
         [legacy_schedule EXCEPT !.next_run[r] = None,
                                 !.sent[r] = Append(@, now)]
    /\ UNCHANGED <<trackerVars, pc, http, now, sysVars, brokerVars, connVars,
                   schedVars, raceVars, statVars, fnVars, legacy_mq>>

\* run_scheduler: time.sleep(1), and the time that passes anywhere else
time_sleep ==
    /\ now + 1 \in Instants
    /\ now' = now + 1
    /\ UNCHANGED <<trackerVars, pc, http, sysVars, brokerVars, connVars,
                   schedVars, raceVars, statVars, fnVars, legacyVars>>

NextLegacyScheduler ==
    \/ \E r \in RowIds : schedule_eta_job(r)
    \/ \E r \in RowIds : execute_job(r)
    \/ time_sleep

\* the scheduler of src/scheduler.py on a file of jobs with etas
SpecLegacyScheduler == InitLegacyScheduler /\ [][NextLegacyScheduler]_vars

\* --------------------------------------- two batches in scheduled mode
\* Every system is built with the same RABBITMQ_CONFIG, whose queue_name is
\* 'google_forms_jobs': the handlers of all systems publish to and consume
\* from the one queue `ready`.  System 0 is a second batch in scheduled mode,
\* followed from its call of schedule_jobs; job 1 is a tracked batch at its
\* call of run_scheduled_mode.
InitTwoBatches ==
    /\ jobs = {1}
    /\ job = [id \in JobIds |->
                IF id = 1
                THEN update_progress(start(NewJobInfo, 0), 40,
                                     "ETA detected, using scheduled mode...")
                ELSE NewJobInfo]
    /\ created = 1
    /\ \E n \in RowIds :
          /\ params = [id \in JobIds |->
                         IF id = 1
                         THEN [rows_count |-> n, max_threads |-> 1,
                               has_eta |-> TRUE]
                         ELSE [rows_count |-> 0, max_threads |-> 1,
                               has_eta |-> FALSE]]
          /\ rows = [id \in JobIds |->
                       [r \in RowIds |->
                          IF id = 1 /\ r <= n THEN "todo" ELSE "none"]]
    /\ pc = [id \in JobIds |->
               IF id = 1 THEN "run_scheduled_mode" ELSE "none"]
    /\ http = [pc |-> "idle", id |-> 0]
    /\ now = 0
    /\ stats = [s \in Systems |-> NoStats]
    /\ timers = [id \in JobIds |-> {}]
    /\ ready = <<>>
    /\ consumer = [s \in Systems |-> Off]
    /\ deliveries = [m \in Msgs |-> 0]
    /\ acked = {}
    /\ rejected = {}
    /\ broker_up = TRUE
    /\ handler = NewHandler
    /\ call = [t \in Threads |-> "none"]
    /\ batch = <<None>>
    /\ scheduler = [pc |-> "schedule_jobs", now |-> None]
    /\ sender = [r \in RowIds |-> NoTimer]
    /\ Unlocked

NextTwoBatches ==
    \/ SchedulerThread
    \/ \E r \in RowIds : TimerThread(r)
    \/ ScheduledWorker
    \/ wrapper_receive(0)
    \/ \E o \in Outcomes : wrapper_return(o)
    \/ \E ok \in BOOLEAN : run_scheduled_mode(1, ok)
    \/ \E r \in RowIds : schedule_job(1, r)
    \/ start_worker(1)
    \/ wrapper_receive(1)
    \/ \E o \in Outcomes, closed \in BOOLEAN :
          wrapper_return_tracked(1, o, closed)

\* two batches in scheduled mode at the same time, each with its own system,
\* scheduler and worker
SpecTwoBatches == InitTwoBatches /\ [][NextTwoBatches]_vars

\* ------------------------------------------------------------------ claims
\* the messages the broker holds: ready, or delivered and not yet settled
InBroker ==
    {ready[i] : i \in DOMAIN ready}
        \cup {consumer[s].msg : s \in {x \in Systems : consumer[x].pc = "exec"}}

\* the rows for which system id has a submit_form call in progress
InProgress(id) ==
    Executing(id)
        \cup (IF consumer[id].pc = "exec" THEN {consumer[id].msg.row} ELSE {})

\* submit_form has not been called for any row of batch id, and none of its
\* rows is on its way to a worker
NoExecutor(id) ==
    /\ \A r \in RowIds : rows[id][r] \in {"none", "todo"}
    /\ timers[id] = {}
    /\ \A m \in InBroker \cup acked \cup rejected : m.batch # id

\* the status changes of the state machine of section 4.4
StatusPaths ==
    {<<PENDING, PROCESSING>>, <<PENDING, CANCELLED>>,
     <<PROCESSING, COMPLETED>>, <<PROCESSING, FAILED>>,
     <<PROCESSING, CANCELLED>>}

\* C1: the status of a job moves only along pending -> processing ->
\* {completed, failed, cancelled} and pending -> cancelled; in particular no
\* operation changes a status that is completed, failed or cancelled.
C1_StatusPaths ==
    [][\A id \in JobIds :
          \/ job'[id].status = job[id].status
          \/ <<job[id].status, job'[id].status>> \in StatusPaths]_vars

\* C2: once cancel_requested is set for a batch, no submit_form call for a
\* further row of that batch starts.
C2_NoRowAfterCancel ==
    [][\A id \in JobIds :
          job[id].cancel_requested => InProgress(id)' \subseteq InProgress(id)]_vars

\* C3: the cancel of a processing job sets cancel_requested and leaves the
\* status processing.
C3_CancelProcessingKeepsStatus ==
    [][\A id \in JobIds :
          (/\ http.pc = "cancel" /\ http.id = id /\ http'.pc = "idle"
           /\ job[id].status = PROCESSING)
          => (job'[id].cancel_requested /\ job'[id].status = PROCESSING)]_vars

\* the cancel has taken effect before the thread of job id ran start_job, that
\* is, while the job was pending
CancelledWhilePending(id) == pc[id] = "get_job" /\ job[id].cancel_requested

\* C4: a job cancelled while it is pending has status cancelled at once, and
\* submit_form is never called for any of its rows, whatever its thread does
\* afterwards.
C4_PendingCancel ==
    \A id \in JobIds :
        [](CancelledWhilePending(id)
              => (job[id].status = CANCELLED /\ [](NoExecutor(id))))

\* the thread of a job cancelled while pending has run start_job, seen the
\* flag at line 44 and returned
C4_Witness ==
    \E id \in JobIds :
        /\ pc[id] = "done" /\ job[id].cancel_requested
        /\ job[id].status = PROCESSING /\ NoExecutor(id)

\* C5: cancelling twice in a row leaves the status that cancelling once
\* leaves, a cancel of a completed, failed or cancelled job changes nothing,
\* and a cancel request that called job.cancel() ends in a status on which
\* the next request is a no-op.
C5_CancelIdempotent ==
    /\ [](\A id \in jobs :
            LET once == cancel_job(job[id], now) IN
              /\ cancel_job(once, now).status = once.status
              /\ job[id].status \in Terminal => once = job[id])
    /\ [][\A id \in JobIds :
            (http.pc = "cancel" /\ http.id = id /\ http'.pc = "idle")
            => cancel_job(job'[id], now') = job'[id]]_vars

\* a cancel request has run on a job that then completed: the next request
\* finds it completed
C5_Witness ==
    \E id \in jobs :
        /\ http.pc = "idle" /\ job[id].cancel_requested
        /\ job[id].status = COMPLETED

\* C6: cancel_requested, once true, stays true.
C6_FlagNeverCleared ==
    [][\A id \in JobIds :
          job[id].cancel_requested => job'[id].cancel_requested]_vars

\* start_job, update_job_progress and complete_job have all run after the
\* cancel of a job, and cleanup_old_jobs has evicted it
C6_Witness ==
    \E id \in JobIds :
        /\ job[id].cancel_requested /\ job[id].status = COMPLETED
        /\ id \notin jobs /\ created >= id

\* C7: every tracked job eventually has a terminal status.
C7_EventuallyTerminal ==
    \A id \in JobIds :
        [](pc[id] = "get_job" => <>(job[id].status \in Terminal))

\* every job message of the queue has been acknowledged
AllJobsAcked ==
    /\ consumer[0].pc = "idle"
    /\ \A i \in DOMAIN ready : ready[i].kind # "job"

\* C8: when every job has succeeded in the end, no job counts as failed and
\* each counts once as succeeded, however many deliveries it took.
C8_CountedOncePerJob ==
    AllJobsAcked =>
        /\ stats[0].failed = 0
        /\ stats[0].succeeded = Cardinality(acked)

\* C9: a message leaves the broker only by the ack that follows a successful
\* handler or by the rejection of a body that is no JSON; after a handler that
\* failed, and after one that raised, it is back at the head of the queue.
C9_NoJobLost ==
    [][\A m \in Msgs :
          /\ (m \in InBroker /\ m \notin InBroker')
             => \/ /\ consumer[0].pc = "exec" /\ consumer[0].msg = m
                   /\ stats'[0].succeeded = stats[0].succeeded + 1
                   /\ m \in acked'
                \/ m.kind = "badjson" /\ m \in rejected'
          /\ (/\ consumer[0].pc = "exec" /\ consumer[0].msg = m
              /\ stats'[0].failed = stats[0].failed + 1)
             => (ready' # <<>> /\ Head(ready') = m)
          /\ (m.kind = "nondict" /\ deliveries'[m] # deliveries[m])
             => (ready' # <<>> /\ Head(ready') = m)]_vars

\* a job was delivered, failed, came back and was acknowledged on a later
\* delivery, and a body that is no JSON was rejected
C9_Witness ==
    /\ \E m \in acked : deliveries[m] >= 2
    /\ \E m \in rejected : m.kind = "badjson"

Settles(m) ==
    \/ consumer[0].pc = "exec" /\ consumer[0].msg = m /\ consumer'[0].pc = "idle"
    \/ /\ consumer[0].pc = "idle" /\ consumer'[0].pc = "idle"
       /\ ready # <<>> /\ Head(ready) = m /\ deliveries'[m] # deliveries[m]

\* the three dispositions of a delivery taken off the queue
Acked(m) == m \in acked' /\ m \notin rejected' /\ m \notin InBroker'
NackedRequeue(m) ==
    /\ m \notin acked' /\ m \notin rejected'
    /\ ready' # <<>> /\ Head(ready') = m
NackedNoRequeue(m) == m \in rejected' /\ m \notin acked' /\ m \notin InBroker'

C12_PoisonDeliveredOnce ==
    \A m \in Msgs : m.kind # "job" => deliveries[m] <= 1

\* the consumer of system 0 is registered: start_consuming runs
Consuming == consumer[0].pc \in {"idle", "exec"}

\* C13: a call of connect() returns, True or False; it does not block for
\* ever when an attempt fails.
C13_ConnectReturns ==
    \A t \in Threads :
        [](call[t] = "connect"
             => <>(call[t] \in {"true", "false"} \/ consumer[0].pc = "interrupted"))

\* C14: when the broker is reachable again for good after the connection was
\* lost, the worker (unless it is shut down) has its consumer registered again.
C14_ConsumesAgain ==
    (/\ <>(Consuming /\ <>~Consuming)
     /\ <>[]broker_up
     /\ [](consumer[0].pc # "interrupted")) => []<>Consuming

\* C15: start_worker is left only by the KeyboardInterrupt; no other path
\* returns from it.
C15_OnlyShutdownEnds ==
    /\ [](consumer[0].pc # "returned")
    /\ [][consumer[0].pc \in {"connect", "exec_closed"}
            => consumer'[0].pc \in {"connect", "exec_closed", "idle",
                                     "interrupted"}]_vars

\* the connection was lost while a callback ran, the attempt to settle failed,
\* the loop of start_worker started again, reconnected and consumes
C15_Witness ==
    /\ consumer[0].pc = "idle"
    /\ stats[0].processed > Cardinality(acked)
    /\ stats[0].failed = 0

\* the threads that work on the connection and channel of the handler: the
\* consumer inside start_consuming, a send_job inside basic_publish, a
\* connect() that closes and makes the connection
Using ==
    (IF consumer[0].pc = "idle" THEN {0} ELSE {})
        \cup {r \in RowIds : sender[r].pc = "basic_publish"}
        \cup {t \in Threads : call[t] = "attempt"}

\* C16: the connection and channel of the handler are never used by two
\* threads at a time: no Timer publishes on them while the consumer or
\* another Timer uses or re-creates them.
C16_ConnectionNotShared == Cardinality(Using) <= 1

\* the eta of row r was later than the now schedule_jobs read
FutureEta(r) ==
    /\ r \in BatchRows /\ scheduler.now # None
    /\ batch[r] # None /\ batch[r] > scheduler.now

\* send_job has been called by the Timer of row r
Fired(r) == sender[r].pc \in {"send_job", "basic_publish", "true", "false"}

\* C17: the job of a row whose eta is later than the time schedule_jobs runs
\* at is handed to send_job, and so published, at its eta or later.
C17_NotBeforeEta ==
    \A r \in RowIds : (FutureEta(r) /\ Fired(r)) => now >= batch[r]

\* a job with an eta in the future has been published, the clock at its eta
C17_Witness ==
    \E r \in RowIds :
        /\ FutureEta(r) /\ sender[r].pc = "true"
        /\ \E i \in DOMAIN ready : ready[i] = JobMsg(0, r)

\* how many times the job of row r has been put in the queue
Published(r) == Cardinality({i \in DOMAIN ready : ready[i] = JobMsg(0, r)})

\* C18: schedule_jobs arms one Timer for every job of the batch and for
\* nothing else; every Timer calls send_job with its own job; the job of a row
\* is in the queue once when the send_job of its Timer has returned True, and
\* not at all before.
C18_OncePerJob ==
    /\ scheduler.pc = "returned"
         => {r \in RowIds : sender[r].pc # "off"} = BatchRows
    /\ \A r \in RowIds : sender[r].pc # "off" => sender[r].job = r
    /\ \A r \in RowIds :
          Published(r) = IF sender[r].pc = "true" THEN 1 ELSE 0

\* the Timers of a batch of two jobs have both published, each its own job
C18_Witness ==
    /\ Len(batch) >= 2 /\ scheduler.pc = "returned"
    /\ \A r \in BatchRows : sender[r].pc = "true" /\ Published(r) = 1

\* the job of row r has no eta, or one that is not later than the now
\* schedule_jobs read
Immediate(r) ==
    /\ r \in BatchRows /\ scheduler.now # None
    /\ (batch[r] = None \/ batch[r] <= scheduler.now)

\* C19: a job without eta and a job whose eta has passed are armed alike,
\* with the minimal delay (the Timer is due as soon as it is armed); send_job
\* is called by the Timer thread, never inside schedule_jobs, and
\* schedule_jobs goes on without waiting for any Timer.
C19_ImmediateByTimer ==
    /\ \A r \in RowIds : Fired(r) => sender[r].by = r
    /\ \A r \in RowIds :
          (Immediate(r) /\ sender[r].pc # "off") => sender[r].due <= now
    /\ scheduler.pc = "schedule_jobs" => ENABLED SchedulerThread

\* schedule_jobs has returned with the Timer of a job without eta and the
\* Timer of a job whose eta has passed armed alike, neither having run
C19_Witness ==
    /\ scheduler.pc = "returned"
    /\ \E r, q \in BatchRows :
          /\ batch[r] = None /\ batch[q] # None /\ Immediate(q)
          /\ sender[r].pc = "armed" /\ sender[q].pc = "armed"
          /\ sender[r].due = sender[q].due

\* C20: a call of send_job returns, True or False.
C20_SendJobReturns ==
    \A r \in RowIds :
        [](sender[r].pc = "send_job" => <>(sender[r].pc \in {"true", "false"}))


\* what the thread that called schedule_jobs holds: the call and what it gave
\* back, and the position of the thread in the start_worker that follows
SchedulerCaller == <<scheduler, consumer[0], call[0]>>

\* C21: when send_job gives up on a job after its last retry, the failure
\* reaches the caller of schedule_jobs: the step in which send_job returns
\* False changes what that caller holds.
C21_FailureSurfaced ==
    [][\A r \in RowIds :
          (sender[r].pc # "false" /\ sender'[r].pc = "false")
          => SchedulerCaller' # SchedulerCaller]_vars


\* C22: with threads = N in the request, at most N submit_form calls of the
\* batch are in progress at any moment, however many jobs are ready: the
\* system is configured with between 1 and N threads, and no more calls than
\* that run at a time, in the pool of batch mode or in the consumer.
C22_ConcurrencyBound ==
    /\ \A h \in BOOLEAN, n \in 1..MaxThreads : max_threads(h, n) \in 1..n
    /\ \A id \in JobIds :
          Cardinality(InProgress(id)) <= params[id].max_threads

\* a pool of several threads is full: as many submit_form calls run as the
\* request allows
C22_Witness ==
    \E id \in JobIds :
        /\ params[id].max_threads > 1
        /\ Cardinality(Executing(id)) = params[id].max_threads

\* the rows of batch id whose _update_stats call has incremented processed
Counted(id) ==
    {r \in RowIds : rows[id][r] \in {"load_outcome", "store_outcome", "done"}}

\* the rows of batch id whose _update_stats call has returned
Finished(id) == {r \in RowIds : rows[id][r] = "done"}

\* C23: no increment of the counters is lost when the threads of the pool
\* finish jobs at the same time: processed is the number of calls that have
\* incremented it, and once k calls have returned and none is under way,
\* processed = k, succeeded + failed = k and succeeded is the number of jobs
\* that succeeded.
C23_NoLostIncrement ==
    \A id \in JobIds :
        /\ stats[id].processed = Cardinality(Counted(id))
        /\ stats[id].succeeded + stats[id].failed = Cardinality(Finished(id))
        /\ (\A r \in RowIds : rows[id][r] \notin InUpdate)
             => stats[id].succeeded =
                  Cardinality({r \in Finished(id) : updater[r].success})

\* two threads of the pool are inside _update_stats at the same time: one
\* holds the lock, between its read and its write, the other waits for it
C23_Witness ==
    \E r, q \in RowIds :
        /\ rows[1][r] = "store_processed" /\ stats_lock = r
        /\ rows[1][q] = "lock"

\* thread t is inside a mutation of the JobInfo of job id: it has made the
\* first assignment and not yet the last
Mutating(t, id) == writer[t].op # "none" /\ writer[t].id = id /\ writer[t].done > 0

\* C24: a thread that mutates a tracked job holds the lock of the tracker
\* from the first assignment to the last, cancel included, so the assignments
\* of a cancel and those of a start, update_progress, complete or fail of the
\* worker thread on the same job never interleave.
C24_MutationsUnderLock ==
    \A id \in JobIds :
        /\ \A t \in TrackerThreads : Mutating(t, id) => tracker_lock = t
        /\ Cardinality({t \in TrackerThreads : Mutating(t, id)}) <= 1

\* no thread is inside an operation on the JobInfo of job id
Settled(id) == \A t \in TrackerThreads : writer[t].op = "none" \/ writer[t].id # id

\* C26: the message of a job is changed by update_progress only, which
\* appends a log entry carrying it: between operations, message is the message
\* of the last entry of logs (both empty when there is none).
C26_MessageIsLastLog ==
    \A id \in JobIds : Settled(id) => job[id].message = logs[id]

\* percent clamped to [0, 100], case by case
Clamped(percent) ==
    IF percent < 0 THEN 0 ELSE IF percent > 100 THEN 100 ELSE percent

\* C25: update_progress stores the percent it is given clamped to [0, 100],
\* whether the percent is negative, in range or above 100, and the progress
\* of every job is between 0 and 100 in every state.
C25_ProgressClamped ==
    /\ \A percent \in ProgressInputs \cup (-1..101) :
          update_progress(NewJobInfo, percent, "progress").progress
            = Clamped(percent)
    /\ \A id \in JobIds : job[id].progress \in 0..100

\* update_job_progress has been called with a percent above 100 on a job,
\* and 100 is what the job holds
C25_Witness ==
    \E id \in jobs :
        /\ job[id].progress = 100 /\ job[id].message = "progress"
        /\ job[id].status # COMPLETED

\* the wrapper has decoded the body
Received == output.job_data # PyNone

\* C27: the job record the consumer decodes has the form_data, the row_id and
\* the priority of the record handed to send_job; its eta is the ISO string of
\* a datetime eta, and None for None.
C27_RoundTrip ==
    Received =>
        /\ Get(output.job_data, "form_data") = Get(input, "form_data")
        /\ Get(output.job_data, "row_id") = Get(input, "row_id")
        /\ Get(output.job_data, "priority") = Get(input, "priority")
        /\ Get(output.job_data, "eta") =
             IF Get(input, "eta").t = "datetime"
             THEN PyStr(isoformat(Get(input, "eta").v))
             ELSE Get(input, "eta")

\* a record with a datetime eta, a number as priority and a form with a
\* string that reads like a number and a list of strings has made the trip
C27_Witness ==
    /\ Received
    /\ Get(input, "eta").t = "datetime"
    /\ Get(input, "priority") = PyInt(1)
    /\ Get(output.job_data, "form_data") =
         PyDict(<<[k |-> "entry.1", v |-> PyStr("1")],
                  [k |-> "entry.2", v |-> PyList(<<PyStr("a"), PyStr("b")>>)]>>)

\* a job record with its priority taken out
WithoutPriority(job_data) ==
    PyDict([i \in DOMAIN job_data.v |->
              IF job_data.v[i].k = "priority"
              THEN [k |-> "priority", v |-> PyNone] ELSE job_data.v[i]])

C29_NoStaleDelivery ==
    \A m \in Msgs : m.batch = earlier_run => deliveries[m] = 0

\* C30: an exception submit_form raises is a failed job and goes no further:
\* the step in which process_job ends on it counts the job as processed and
\* failed and not as succeeded, the message is back at the head of the queue,
\* unacknowledged, and the consumer waits for its next delivery.
C30_ExceptionIsFailure ==
    [][wrapper_return("raise") =>
          /\ stats'[0] = [processed |-> stats[0].processed + 1,
                          succeeded |-> stats[0].succeeded,
                          failed |-> stats[0].failed + 1]
          /\ ready' = requeue(consumer[0].msg, ready)
          /\ acked' = acked /\ rejected' = rejected
          /\ consumer'[0] = [pc |-> "idle", msg |-> NoMsg]]_vars

\* two jobs have failed or raised, one of them at least twice, and a job has
\* been acknowledged since: the worker is still consuming
C30_Witness ==
    /\ stats[0].failed >= 2
    /\ stats[0].succeeded >= 1
    /\ \E m \in acked : deliveries[m] >= 2
    /\ consumer[0].pc = "exec" /\ deliveries[consumer[0].msg] >= 2

\* the job is in a final status and was completed more than h readings of
\* the clock ago
OldTerminal(id, h) ==
    /\ job[id].status \in {COMPLETED, FAILED, CANCELLED}
    /\ job[id].completed_at # None
    /\ now - job[id].completed_at > h

\* C31: cleanup_old_jobs(h) removes from the registry exactly the jobs in a
\* final status whose completed_at is more than h old; every other job stays,
\* no job is added, and no field of any JobInfo changes.
C31_EvictsExactly ==
    [][\A h \in 0..MaxClock :
          cleanup_old_jobs(h) =>
              /\ jobs' = {id \in jobs : ~OldTerminal(id, h)}
              /\ job' = job]_vars

\* a failed job has been evicted, and it was failed before the last reading
\* of the clock
C31_Witness ==
    \E id \in JobIds :
        /\ created >= id /\ id \notin jobs
        /\ job[id].status = FAILED /\ ~job[id].cancel_requested
        /\ job[id].completed_at < now

\* every job of batch id has been processed and submit_form returned True
\* for each
AllSucceeded(id) ==
    /\ params[id].rows_count > 0
    /\ \A r \in 1..params[id].rows_count :
          rows[id][r] = "done" /\ updater[r].success

\* C32: a batch of k jobs without eta whose submit_form calls all return True
\* ends with processed = k, succeeded = k, failed = 0 and a success rate of
\* 100 percent, with the plain loop and with the pool of threads.
C32_AllSucceed ==
    \A id \in JobIds :
        AllSucceeded(id) =>
            /\ stats[id] = [processed |-> params[id].rows_count,
                            succeeded |-> params[id].rows_count,
                            failed |-> 0]
            /\ success_rate(stats[id]) = 100 * 100

\* a pool of two threads or more has processed a batch of two jobs or more,
\* every submit_form call returning True
C32_Witness ==
    /\ AllSucceeded(1)
    /\ params[1].rows_count > 1 /\ params[1].max_threads > 1
    /\ stats_lock = None
    /\ stats[1].succeeded = params[1].rows_count

\* the waits double from first on, none above cap
Doubling(waits, first, cap) ==
    \A i \in DOMAIN waits :
        /\ waits[i] = Min(first * 2 ^ (i - 1), cap)
        /\ waits[i] <= cap

\* C33: the waits of connect() are 2, 4, 8, ... seconds, none above 30, one
\* after every failed attempt but the last allowed one; the waits of send_job
\* are 1, 2, 4, ... seconds, one after every failed attempt but the last.
C33_Backoff ==
    /\ Doubling(handler.waits, 2, 30)
    /\ Len(handler.waits) =
         Min(handler.reconnect_attempts, max_reconnect_attempts - 1)
    /\ \A r \in RowIds :
          /\ Doubling(sender[r].waits, 1, 2 ^ max_retries)
          /\ Len(sender[r].waits) = sender[r].attempt
          /\ sender[r].attempt <= max_retries - 1
          /\ sender[r].pc = "false" => sender[r].attempt = max_retries - 1

\* send_job has slept once, after the failure of its first attempt, and the
\* connect call of its second attempt has failed once and slept
C33_Witness ==
    /\ sender[1].waits = <<1>>
    /\ handler.waits = <<2>>
    /\ handler.lock = 1

\* the messages of the legacy queue, wherever they are
LegacyMessages ==
    {legacy_mq.ready[i] : i \in DOMAIN legacy_mq.ready}
      \cup legacy_mq.retrying \cup legacy_mq.acked \cup legacy_mq.rejected
      \cup (IF legacy_mq.handling = NoQueueMessage THEN {}
            ELSE {legacy_mq.handling})

\* C34: in the consumer of src/rabbitmq_handler.py every failure of the
\* handler re-publishes the message with retry_count one higher: a message
\* that waits has retry_count equal to the runs of the handler for its row
\* so far; retry_count never exceeds max_retries = 3; a message is rejected
\* only with retry_count = max_retries; the handler runs at most
\* max_retries + 1 times for a row.
C34_BoundedRetries ==
    /\ \A m \in LegacyMessages :
          /\ m.max_retries = 3
          /\ m.retry_count <= m.max_retries
    /\ \A i \in DOMAIN legacy_mq.ready :
          legacy_mq.runs[legacy_mq.ready[i].row] = legacy_mq.ready[i].retry_count
    /\ \A m \in legacy_mq.retrying : legacy_mq.runs[m.row] = m.retry_count
    /\ legacy_mq.handling # NoQueueMessage =>
          legacy_mq.runs[legacy_mq.handling.row]
            = legacy_mq.handling.retry_count + 1
    /\ \A m \in legacy_mq.rejected : m.retry_count = m.max_retries
    /\ \A r \in RowIds : legacy_mq.runs[r] <= 3 + 1

\* a job has failed four times and its message has been rejected, and
\* another job has been retried and acknowledged since
C34_Witness ==
    /\ \E m \in legacy_mq.rejected : legacy_mq.runs[m.row] = 4
    /\ \E m \in legacy_mq.acked :
          /\ m.retry_count > 0
          /\ \A q \in LegacyMessages : q.row = m.row => q.retry_count <= m.retry_count

\* C35: the legacy scheduler executes a job that has an eta at the eta or
\* later, whatever the date of the eta, and executes it once.
C35_NotBeforeEta ==
    \A r \in RowIds :
        /\ Len(legacy_schedule.sent[r]) <= 1
        /\ \A i \in DOMAIN legacy_schedule.sent[r] :
              legacy_schedule.sent[r][i] >= legacy_schedule.eta[r]

C37_ProgressNeverDecreases ==
    [][\A id \in JobIds : job'[id].progress >= job[id].progress]_vars

\* C38: in every state of every tracked job, completed_at is set exactly when
\* the status is completed, failed or cancelled, and a processing job has
\* its started_at set, however the cancel request interleaves with the
\* start, the completion and the failure of the job.
C38_TimestampsMatchStatus ==
    \A id \in jobs :
        /\ job[id].completed_at # None
              <=> job[id].status \in {COMPLETED, FAILED, CANCELLED}
        /\ job[id].status = PROCESSING => job[id].started_at # None

\* C39: with two batches in scheduled mode at the same time, the worker of a
\* batch runs process_job only for the rows its own scheduler published.
C39_OwnRowsOnly ==
    \A s \in Systems :
        consumer[s].pc = "exec" => consumer[s].msg.batch = s

=============================================================================
